---------------------------- MODULE Spec2Model ----------------------------
(***************************************************************************)
(* Worker pool of the push notification service                            *)
(* (src/internal/worker/pool.go) together with the parts of the rate       *)
(* limiter (src/unnamed/part_001) and of the provider registry             *)
(* (provider package, printed in src/README.md) that a worker calls.       *)
(*                                                                         *)
(* One action per goroutine step.  A step is cut wherever the goroutine    *)
(* touches state other goroutines can see (a channel, the metrics lock,    *)
(* the Redis key, the context) or waits for an outside event.              *)
(***************************************************************************)
EXTENDS Naturals, Integers, Sequences, FiniteSets

(***************************************************************************)
(* Bounds of the model.                                                    *)
(***************************************************************************)
\* capacity of jobQueue, resultQueue and errorQueue (maxQueueSize)
MaxQueueSize == 2
\* Pool.retryAttempts
RetryAttempts == 1
\* number of Submit calls made on the pool
MaxSubmit == 3
\* RateLimiter.limit
Limit == 1
\* largest number of AddProvider calls made on a registry
MaxProviders == 2
\* RateLimiter.window, in ticks of the clock
Window == 2
\* capacity of a topic's buffer (getOrCreateQueue makes it 10000)
KafkaCap == 2
\* number of Produce calls made on the producer
MaxProduce == 3

\* names for the worker goroutines Pool.Start can start
WorkerIds == {"w1", "w2"}
\* the users that have a key in Redis, and those notifications are for
Users == {"u1", "u2"}
Recipients == {"u1"}
\* the goroutines that call the limiter directly
Callers == {"a1", "a2"}
\* the goroutines that call Produce on the producer of the topic, and
\* those that call Consume on its consumer
ProducerIds == {"p1", "p2"}
ConsumerIds == {"c1", "c2"}
\* the topic names and the goroutines that call NewProducer and NewConsumer
Topics == {"t1", "t2"}
Creators == {"n1", "n2"}
\* the channels the creators can make at most, were each call to make one
MaxChans == Cardinality(Topics) * Cardinality(Creators)
\* the callers of the limiter stop at this count
MaxCount == Limit + Cardinality(Callers)
ProviderNames == <<"firebase">>
\* the names NewMockProvider is given
MockNames == {"firebase", "apns"}

\* a nil *NotificationMessage, and the zero value of a worker's job;
\* shortId: the ID string has fewer than 8 bytes
Nil == [id |-> 0, user |-> "", expires |-> FALSE, retry |-> 0,
        shortId |-> FALSE]

VARIABLES
    started,      \* Pool.Start has run
    quit,         \* p.quit is closed
    ctxDone,      \* the context given to Start is cancelled
    stopPc,       \* position of the goroutine calling Pool.Stop
    closed,       \* jobQueue, resultQueue and errorQueue are closed
    panicked,     \* "no", or who killed the process: "submit" or "worker"
                  \* by a send on a closed channel, "provider" by slicing
                  \* an ID beyond its length
    jobQueue,     \* buffered *NotificationMessage
    resultQueue,  \* buffered *ProcessingResult
    errorQueue,   \* buffered error
    processed, failed, rateLimited,   \* metrics
    workers,                          \* Pool.workers, as a set of names
    providers,                        \* ProviderManager.providers
    pc, cur, attempt, prov, pending,  \* per worker goroutine
    counter,      \* Redis: rate_limit:<user> (0 == key absent)
    ttl,          \* Redis: ticks until the key expires (0 == no expiry set,
                  \* or key absent)
    deadlinePassed, \* the clock is past the ExpiresAt that notifications
                  \* with an expiry carry
    calls,        \* number of Submit calls so far
    submitRet,    \* what the last Submit call returned
    produced,     \* number of results sendResult was called with so far,
                  \* by their Success field (observation only)
    g,            \* per worker: what happened to the notification it is
                  \* processing (observation only, cleared when it ends)
    healthy,      \* MockProvider.healthStatus of each registered provider
    healthRet,    \* what the last IsHealthy call returned
    lastProbe,    \* what HealthCheck returned to that call for each
                  \* registered provider (TRUE == nil)
    lpc,          \* per caller of IsAllowed: "idle", or "incr" when the
                  \* INCR of its pipeline is done and the EXPIRE is not
    luser,        \* per caller: the user of its call
    lcount,       \* per caller: incrCmd.Val()
    lret,         \* what the last limiter call that returned returned
    lpos,         \* per caller: position of its IsAllowed call among the
                  \* calls of the key's lifetime (observation only)
    made,         \* per user: IsAllowed calls made since the key was
                  \* created (observation only)
    idle,         \* per user: ticks since IsAllowed last touched the key,
                  \* counted up to Window (observation only)
    fresh,        \* per user: the last command on the key was the DEL of
                  \* Reset (observation only)
    kq,           \* messageQueues[topic], the buffered channel of the topic
    sent,         \* number of Produce calls so far
    prunning,     \* Producer.running
    pclosed,      \* Producer.closed is closed
    pmu,          \* Producer.mu: r the goroutines holding RLock, w a Lock
                  \* call is waiting
    ppc,          \* per goroutine calling Produce: "idle", "rlock" (at
                  \* p.mu.RLock()), "select" (at the select)
    pmsg,         \* per goroutine: the message of its Produce call
    pret,         \* per goroutine: what its last Produce call returned
    pcl,          \* the goroutine calling Producer.Close: "idle", "lock"
                  \* (at p.mu.Lock()), "done" (Close has returned)
    crunning,     \* Consumer.running
    cmu,          \* Consumer.mu
    cpc,          \* per goroutine calling Consume: "idle", "rlock", "select"
    cret,         \* per goroutine: what its last Consume call returned
    ccl,          \* the goroutine calling Consumer.Close
    delivered,    \* the messages Consume calls received from the topic, in
                  \* the order they left the buffer (observation only)
    messageQueues, \* topic -> channel (0 == no entry); channels are named
                  \* 1, 2, .. in the order of their make
    queueMutex,   \* the creator holding queueMutex, "" when it is free
    nchan,        \* number of channels made so far
    npc,          \* per creator: where its NewProducer/NewConsumer call is,
                  \* with its topic, its kind and the queue it got
    handles,      \* the producers and consumers created: kind, topic, queue
    chans,        \* channel -> the topics of the messages buffered in it
    lastGot,      \* the consumer topic and the message topic of the last
                  \* message consumed through a handle
    rtMsg,        \* the NotificationMessage given to Producer.Send
    rtWire,       \* the JSON document Send put on the topic
    rtBack,       \* the NotificationMessage ConsumeClaim decoded from it
    strategy,     \* ProviderManager.strategy
    gpRet,        \* what the last GetProvider call returned: the error, or
                  \* the place of the provider in pm.providers, with what
                  \* HealthCheck returned to it for each provider
    hcaRet,       \* the map the last HealthCheckAll call returned, with
                  \* what HealthCheck returned to it for each provider
    mp,           \* one MockProvider: its name and its successRate
    mpCall,       \* the Send call on it: where it is, the ID of its
                  \* notification, the state of its context
    mpRet,        \* what the last Send call on it returned
    scPc,         \* the consumer of the broker: where its consume loop, its
                  \* error monitor and its Stop call are
    scCtxDone,    \* c.ctx of that consumer is cancelled
    scErrors,     \* consumerGroup.Errors(): the errors waiting in it, the
                  \* errors emitted so far, whether it is closed
    scErrorChan,  \* number of errors waiting in handler.errorChan
    svcTopic,     \* the consumer service: the notifications on its topic
    svcStatus,    \* notification id -> the status kept in Redis, "" if none
    svcNow,       \* time.Now() of the consumer service
    svcLast,      \* the notification of the last processMessage call as
                  \* the call left it, with the outcome of its delivery
    bk,           \* the attempt loop of one notification by itself: the
                  \* retryAttempts and retryDelay of its pool, the attempt
                  \* it is at, the time it has waited, where it is
    mainSvc,      \* the Service of cmd/main.go around the pool: how far
                  \* Service.Stop is, where processMessages is, the number
                  \* of Submit calls it saw before its own, the number of
                  \* messages buffered in messageChan
    cc            \* one ConsumeClaim call of the sarama handler: where it
                  \* is, the message it holds, the claim's messages, the
                  \* session context, the two channels of the handler, and
                  \* the offsets marked, handed over and reported so far

poolVars == <<started, quit, ctxDone, stopPc, closed, panicked>>
chanVars == <<jobQueue, resultQueue, errorQueue>>
metricVars == <<processed, failed, rateLimited>>
cfgVars == <<workers, providers>>
workerVars == <<pc, cur, attempt, prov, pending>>
envVars == <<counter, ttl, deadlinePassed>>
callVars == <<calls, submitRet, produced>>
healthVars == <<healthy, healthRet, lastProbe>>
\* the callers of the limiter and what is observed of the keys; the
\* specifications of the pool leave these as they start
limVars == <<lpc, luser, lcount, lret, lpos, made, idle, fresh>>
\* the simulated Kafka topic with its producer and its consumer
kafkaVars == <<kq, sent, prunning, pclosed, pmu, ppc, pmsg, pret, pcl,
               crunning, cmu, cpc, cret, ccl, delivered>>
\* the registry of topics with the clients created on it
regVars == <<messageQueues, queueMutex, nchan, npc, handles, chans, lastGot>>
\* one message on its way through Send and ConsumeClaim
rtVars == <<rtMsg, rtWire, rtBack>>
\* the provider manager beyond its registry, and what its calls returned
mgrVars == <<strategy, gpRet, hcaRet>>
\* a mock provider by itself with the Send call on it
mockVars == <<mp, mpCall, mpRet>>
\* the consumer of the broker's consumer group
stopVars == <<scPc, scCtxDone, scErrors, scErrorChan>>
\* what the registry of topics, the round trip and the manager leave alone
\* the notifications of the consumer service
svcVars == <<svcTopic, svcStatus, svcNow, svcLast>>
\* the components modelled after those
tailVars == <<bk, mainSvc, cc>>
otherVars == <<mockVars, stopVars, svcVars, tailVars>>
moreVars == <<regVars, rtVars, mgrVars, otherVars>>
restVars == <<healthVars, limVars, kafkaVars, moreVars>>
vars == <<poolVars, chanVars, metricVars, cfgVars, workerVars, envVars,
          callVars, g, restVars>>

NoResult == [id |-> 0, success |-> FALSE, kind |-> "none",
             provider |-> "", attempts |-> 0]

\* sends: Send calls issued; resp: Send calls that returned a response;
\* to: the providers the Send calls were issued to;
\* res: calls of sendResult; incP, incF, incR: increments of processed,
\* failed, rateLimited; hit: where the worker was when the context was
\* cancelled
NoObs == [sends |-> 0, resp |-> 0, res |-> 0,
          incP |-> 0, incF |-> 0, incR |-> 0, hit |-> "no", to |-> {}]

\* no limiter call has returned yet
NoRet == [op |-> "none", user |-> "", ok |-> FALSE, err |-> FALSE,
          val |-> 0]

(***************************************************************************)
(* Helpers: channel operations, the retry budget, the expiry test and the  *)
(* limiter's verdict.                                                      *)
(***************************************************************************)
\* faulty variant: a buffer that takes one element too many
CanSendOffByOne(q) == Len(q) <= MaxQueueSize

\* a buffered channel made with capacity maxQueueSize accepts a send
\* without blocking iff it is not full
CanSend(q) == Len(q) < MaxQueueSize

\* faulty variant: a send that always puts the element on the channel
TrySendAlways(q, x) == Append(q, x)

\* `select { case ch <- x: default: }` on an open channel
TrySend(q, x) == IF CanSend(q) THEN Append(q, x) ELSE q

\* faulty variant: a receive that leaves the element in the buffer
RecvPeek(q) == q

\* what stays buffered after `job := <-p.jobQueue`
Recv(q) == Tail(q)

\* faulty variant: the attempts go round the registry
SendTargetRotates(selected, k) == providers[(k % Len(providers)) + 1]

\* selectedProvider.Send(providerCtx, notification): the receiver of
\* attempt k is the provider GetProvider returned before the loop
SendTarget(selected, k) == selected

\* faulty variant: an increment that is lost
PlusPlusLost(n) == n

\* p.processed++, p.failed++, p.rateLimited++ under p.mu
PlusPlus(n) == n + 1

\* maxAttempts := p.retryAttempts + 1
MaxAttempts == RetryAttempts + 1

\* faulty variant: the comparison the wrong way round (Before for After)
ExpiredInverted(n) == n.expires /\ ~deadlinePassed

\* notification.ExpiresAt != nil && time.Now().After(*notification.ExpiresAt)
Expired(n) == n.expires /\ deadlinePassed

\* faulty variant: one attempt more than the budget
HasAttemptLeftOffByOne(a) == a <= MaxAttempts

\* after a failed attempt a the loop `attempt <= maxAttempts` goes round
\* again iff another attempt is left
HasAttemptLeft(a) == a < MaxAttempts

\* faulty variant: only a successful response ends the loop
ResponseEndsLoopOnSuccess(success) == success

\* a Send that returned no error ends the loop whatever response.Success
\* is: both branches fall through to sendResult and return
ResponseEndsLoop(success) == TRUE

\* faulty variant: the rejection branch lacks its return and the loop
\* goes on
AfterReportFallsThrough(kind) == IF kind = "rejected" THEN "backoff" ELSE "idle"

\* where the worker is after sendResult: every branch returns to the loop
AfterReport(kind) == "idle"

\* faulty variant: one request more than the limit
AllowedOffByOne(count) == count <= Limit + 1

\* count <= int64(rl.limit)
Allowed(count) == count <= Limit

\* faulty variant: Stop does not wait for the workers
WgWaitSkipped == TRUE

\* p.wg.Wait() returns: every worker has run its deferred wg.Done()
WgWait == \A w \in workers : pc[w] = "exited"

\* the notifications a caller can hand to Submit; the caller gives every
\* notification its own id, here of 8 bytes or more
Notifications(id) ==
    [id : {id}, user : Recipients, expires : BOOLEAN, retry : {0},
     shortId : {FALSE}]

\* notifications whose ID has fewer than 8 bytes
ShortIdNotifications(id) ==
    [id : {id}, user : Recipients, expires : {FALSE}, retry : {0},
     shortId : {TRUE}]

\* notification.ID[:8] in MockProvider.Send is a run-time panic on an ID
\* of fewer than 8 bytes
SliceFails(n) == n.shortId

\* faulty variant: an empty registry answers with a provider of its own
SelectableOrDefault ==
    IF providers = <<>> THEN {"default"}
    ELSE {providers[i] : i \in 1..Len(providers)}

\* the selections GetProvider can make: an index drawn by rand.Intn
\* (RoundRobin, Random) or the first healthy / the first (HealthBased)
Selectable == {providers[i] : i \in 1..Len(providers)}

(***************************************************************************)
(* Initial state: the pool as NewPool returns it, the registry as the      *)
(* service filled it (or left empty), no Redis key.                        *)
(***************************************************************************)
\* what a consume call that has not returned yet has returned
NoMsg == [res |-> "none", msg |-> 0]

\* an unlocked sync.RWMutex
Unlocked == [r |-> {}, w |-> FALSE]

\* getOrCreateQueue, NewProducer, NewConsumer: an empty topic, a running
\* producer with an open closed channel, a running consumer
InitTopic ==
    /\ kq = <<>> /\ sent = 0
    /\ prunning = TRUE /\ pclosed = FALSE /\ pmu = Unlocked
    /\ ppc = [p \in ProducerIds |-> "idle"]
    /\ pmsg = [p \in ProducerIds |-> 0]
    /\ pret = [p \in ProducerIds |-> "none"]
    /\ pcl = "idle"
    /\ crunning = TRUE /\ cmu = Unlocked
    /\ cpc = [c \in ConsumerIds |-> "idle"]
    /\ cret = [c \in ConsumerIds |-> NoMsg]
    /\ ccl = "idle"
    /\ delivered = <<>>

(***************************************************************************)
(* Go values of the NotificationMessage round trip.  A time.Time is its    *)
(* instant with the flag of a monotonic clock reading (time.Now() sets     *)
(* it); a *time.Time is that with a nil flag; Data is nil, empty, or holds *)
(* one value under the key "badge", a value being its dynamic Go type and  *)
(* a number standing for its content.  A string named in InvalidUTF8       *)
(* stands for a Go string holding a byte that is not valid UTF-8.          *)
(***************************************************************************)
InvalidUTF8 == {"id-ff"}
Replaced == "id-fffd"
Time(at, mono) == [at |-> at, mono |-> mono]
NilTime == [isNil |-> TRUE, at |-> 0, mono |-> FALSE]
PtrTime(at, mono) == [isNil |-> FALSE, at |-> at, mono |-> mono]
NilData == [isNil |-> TRUE, has |-> FALSE, kind |-> "", n |-> 0]
EmptyData == [isNil |-> FALSE, has |-> FALSE, kind |-> "", n |-> 0]
OneData(kind, n) == [isNil |-> FALSE, has |-> TRUE, kind |-> kind, n |-> n]

\* the dynamic types a value of Data is given by the callers
GoKinds == {"int", "float64", "string", "bool"}

\* the messages given to Send
Messages ==
    [ID : {"n1", "id-ff"}, UserID : {"u1"}, Type : {"push"},
     Title : {"hi"}, Body : {""},
     Data : {NilData, EmptyData} \cup {OneData(k, 1) : k \in GoKinds},
     Priority : {0, 3},
     CreatedAt : {Time(1, FALSE), Time(1, TRUE)},
     ExpiresAt : {NilTime, PtrTime(2, FALSE)},
     Retry : {0, 1}]

\* the zero value of the struct
NoMessage ==
    [ID |-> "", UserID |-> "", Type |-> "", Title |-> "", Body |-> "",
     Data |-> NilData, Priority |-> 0, CreatedAt |-> Time(0, FALSE),
     ExpiresAt |-> NilTime, Retry |-> 0]

\* no document
NoDoc == [sent |-> FALSE]

\* LoadBalanceStrategy; "Unknown" is any other value of the int type
Strategies == {"RoundRobin", "Random", "HealthBased", "Unknown"}

\* no GetProvider call has returned, no HealthCheckAll call has returned
NoSel == [res |-> "none", index |-> 0, probes |-> <<>>]
NoMap == [called |-> FALSE, results |-> <<>>, probes |-> <<>>]
\* the ids of the notifications of the consumer service
NotifIds == {"a1", "a2"}
\* no processMessage call has got a notification yet
NoNotification ==
    [ID |-> "", RetryCount |-> 0, Status |-> "", delivery |-> "none"]
\* the message of a ConsumeClaim call that holds none
NoClaimMessage == [offset |-> 0, valid |-> FALSE]
\* a ConsumeClaim call at its first select, on a claim without messages
NoClaim == [pc |-> "select", done |-> FALSE, claim |-> <<>>, arrived |-> 0,
            closed |-> FALSE, msg |-> NoClaimMessage,
            messageChan |-> <<>>, errorChan |-> <<>>,
            marked |-> {}, handed |-> {}, reported |-> {}]
\* no attempt loop has been entered
NoLoop == [retryAttempts |-> 0, retryDelay |-> 0, attempt |-> 0,
           waited |-> 0, pc |-> "idle"]
\* no Send call in progress, and no Send call returned yet
NoSend == [pc |-> "idle", id |-> <<>>, ctx |-> "live"]
NoReturn == [out |-> "none"]

\* a creator that is in no call
NoCall == [pc |-> "idle", kind |-> "", topic |-> "", queue |-> 0]

\* the package variables of kafka.go at program start: an empty map of
\* topics, a free mutex
InitRegistryOfTopics ==
    /\ messageQueues = [t \in Topics |-> 0]
    /\ queueMutex = "" /\ nchan = 0
    /\ npc = [n \in Creators |-> NoCall]
    /\ handles = {}
    /\ chans = [i \in 1..MaxChans |-> <<>>]
    /\ lastGot = <<>>

InitPool ==
    /\ started = FALSE /\ quit = FALSE /\ ctxDone = FALSE
    /\ stopPc = "none" /\ closed = FALSE /\ panicked = "no"
    /\ jobQueue = <<>> /\ resultQueue = <<>> /\ errorQueue = <<>>
    /\ processed = 0 /\ failed = 0 /\ rateLimited = 0
    /\ pc = [w \in WorkerIds |-> "new"]
    /\ cur = [w \in WorkerIds |-> Nil]
    /\ attempt = [w \in WorkerIds |-> 0]
    /\ prov = [w \in WorkerIds |-> ""]
    /\ pending = [w \in WorkerIds |-> NoResult]
    /\ counter = [u \in Users |-> 0]
    /\ ttl = [u \in Users |-> 0]
    /\ deadlinePassed = FALSE
    /\ lpc = [c \in Callers |-> "idle"]
    /\ luser = [c \in Callers |-> ""]
    /\ lcount = [c \in Callers |-> 0]
    /\ lret = NoRet
    /\ lpos = [c \in Callers |-> 0]
    /\ made = [u \in Users |-> 0]
    /\ idle = [u \in Users |-> 0]
    /\ fresh = [u \in Users |-> FALSE]
    /\ calls = 0 /\ submitRet = "none"
    /\ produced = [success |-> 0, failure |-> 0]
    /\ g = [w \in WorkerIds |-> NoObs]
    /\ healthRet = "none" /\ lastProbe = <<>>
    /\ InitTopic
    /\ InitRegistryOfTopics
    /\ rtMsg = NoMessage /\ rtWire = NoDoc /\ rtBack = NoMessage
    /\ strategy = "Random" /\ gpRet = NoSel /\ hcaRet = NoMap
    /\ mp = [name |-> <<"f", "c", "m">>, successRate |-> 100]
    /\ mpCall = NoSend /\ mpRet = NoReturn
    /\ scPc = [loop |-> "off", monitor |-> "off", stop |-> "none"]
    /\ scCtxDone = FALSE
    /\ scErrors = [len |-> 0, emitted |-> 0, closed |-> FALSE]
    /\ scErrorChan = 0
    /\ svcTopic = <<>>
    /\ svcStatus = [id \in NotifIds |-> ""]
    /\ svcNow = 0
    /\ svcLast = NoNotification
    /\ bk = NoLoop
    /\ mainSvc = [stop |-> "none", pm |-> "new", seen |-> 0, inbox |-> 0]
    /\ cc = NoClaim

\* a registry out of regs; NewMockProvider sets healthStatus to true
InitRegistry(regs) ==
    /\ providers \in regs
    /\ healthy = [i \in 1..Len(providers) |-> TRUE]

\* a pool of one worker, over an empty or a filled registry
Init ==
    /\ InitPool
    /\ workers = {"w1"}
    /\ InitRegistry({<<>>, ProviderNames})

\* a pool of two workers
InitTwo ==
    /\ InitPool
    /\ workers = WorkerIds
    /\ InitRegistry({ProviderNames})

\* a pool of one worker over a registry of two providers
InitTwoProviders ==
    /\ InitPool
    /\ workers = {"w1"}
    /\ InitRegistry({<<"firebase", "apns">>})

\* the limiter on its own: the pool is not started
InitLimiter ==
    /\ InitPool
    /\ workers = {"w1"}
    /\ InitRegistry({ProviderNames})

\* the registries AddProvider can build: it appends whatever it is given,
\* so two providers may carry the same name
Registries ==
    UNION {[1..n -> MockNames] : n \in 0..MaxProviders}

\* a pool of one worker over any registry
InitHealth ==
    /\ InitPool
    /\ workers = {"w1"}
    /\ InitRegistry(Registries)

(***************************************************************************)
(* Pool.Start, Pool.Submit, Pool.Stop and the pool's environment.          *)
(***************************************************************************)
Start ==
    /\ panicked = "no" /\ ~started /\ stopPc = "none"
    /\ started' = TRUE
    /\ pc' = [w \in WorkerIds |-> IF w \in workers THEN "idle" ELSE pc[w]]
    /\ UNCHANGED <<quit, ctxDone, stopPc, closed, panicked, chanVars,
                   metricVars, cfgVars, cur, attempt, prov, pending,
                   envVars, callVars, restVars, g>>

\* Submit(n) on an open job channel; n = Nil is a nil pointer
Submit(n) ==
    /\ panicked = "no" /\ ~closed /\ calls < MaxSubmit
    /\ calls' = calls + 1
    /\ IF CanSend(jobQueue)
       THEN /\ jobQueue' = Append(jobQueue, n)
            /\ submitRet' = "nil"
       ELSE /\ jobQueue' = jobQueue
            /\ submitRet' = "QueueFull"
    /\ UNCHANGED <<poolVars, resultQueue, errorQueue, metricVars, cfgVars,
                   workerVars, envVars, produced, restVars, g>>

\* Submit after Stop closed the job channel: a send on a closed channel
SubmitClosed ==
    /\ panicked = "no" /\ closed /\ calls < MaxSubmit
    /\ calls' = calls + 1
    /\ panicked' = "submit"
    /\ UNCHANGED <<started, quit, ctxDone, stopPc, closed, chanVars,
                   metricVars, cfgVars, workerVars, envVars, submitRet,
                   produced, restVars, g>>

\* Stop, first half: close(p.quit), then block in p.wg.Wait()
StopSignal ==
    /\ panicked = "no" /\ started /\ stopPc = "none"
    /\ quit' = TRUE
    /\ stopPc' = "wait"
    /\ UNCHANGED <<started, ctxDone, closed, panicked, chanVars, metricVars,
                   cfgVars, workerVars, envVars, callVars, restVars, g>>

\* Stop, second half: wg.Wait() returned; close the three channels
StopClose ==
    /\ panicked = "no" /\ stopPc = "wait"
    /\ WgWait
    /\ closed' = TRUE
    /\ stopPc' = "done"
    /\ UNCHANGED <<started, quit, ctxDone, panicked, chanVars, metricVars,
                   cfgVars, workerVars, envVars, callVars, restVars, g>>

\* the owner of the context cancels it (Service.Stop calls s.cancel())
Cancel ==
    /\ panicked = "no" /\ ~ctxDone
    /\ ctxDone' = TRUE
    /\ g' = [w \in WorkerIds |->
               IF pc[w] \in {"send", "backoff"}
               THEN [g[w] EXCEPT !.hit = pc[w]] ELSE g[w]]
    /\ UNCHANGED <<started, quit, stopPc, closed, panicked, chanVars,
                   metricVars, cfgVars, workerVars, envVars, callVars, restVars>>

\* time passes the expiry of the notifications that carry one
Tick ==
    /\ panicked = "no" /\ ~deadlinePassed
    /\ deadlinePassed' = TRUE
    /\ UNCHANGED <<poolVars, chanVars, metricVars, cfgVars, workerVars,
                   counter, ttl, callVars, restVars, g>>

\* Redis drops the user's key when its expiry runs out
KeyExpire(u) ==
    /\ panicked = "no" /\ counter[u] > 0 /\ ttl[u] > 0
    /\ counter' = [counter EXCEPT ![u] = 0]
    /\ ttl' = [ttl EXCEPT ![u] = 0]
    /\ UNCHANGED <<poolVars, chanVars, metricVars, cfgVars, workerVars,
                   deadlinePassed, callVars, restVars, g>>

\* a reader of Results() takes one result
DrainResult ==
    /\ panicked = "no" /\ resultQueue # <<>>
    /\ resultQueue' = Tail(resultQueue)
    /\ UNCHANGED <<poolVars, jobQueue, errorQueue, metricVars, cfgVars,
                   workerVars, envVars, callVars, restVars, g>>

\* a reader of Errors() takes one error
DrainError ==
    /\ panicked = "no" /\ errorQueue # <<>>
    /\ errorQueue' = Tail(errorQueue)
    /\ UNCHANGED <<poolVars, jobQueue, resultQueue, metricVars, cfgVars,
                   workerVars, envVars, callVars, restVars, g>>

(***************************************************************************)
(* Pool.worker: the select loop.  Go's select takes any ready case, so a   *)
(* worker whose quit or ctx case is ready may still take a buffered job.   *)
(***************************************************************************)
WorkerQuit(w) ==
    /\ panicked = "no" /\ pc[w] = "idle" /\ quit
    /\ pc' = [pc EXCEPT ![w] = "exited"]
    /\ UNCHANGED <<poolVars, chanVars, metricVars, cfgVars, cur, attempt,
                   prov, pending, envVars, callVars, restVars, g>>

WorkerCtxDone(w) ==
    /\ panicked = "no" /\ pc[w] = "idle" /\ ctxDone
    /\ pc' = [pc EXCEPT ![w] = "exited"]
    /\ UNCHANGED <<poolVars, chanVars, metricVars, cfgVars, cur, attempt,
                   prov, pending, envVars, callVars, restVars, g>>

\* processNotification returns: the worker is back at its select and its
\* locals are gone
Return(w) ==
    /\ pc' = [pc EXCEPT ![w] = "idle"]
    /\ cur' = [cur EXCEPT ![w] = Nil]
    /\ attempt' = [attempt EXCEPT ![w] = 0]
    /\ prov' = [prov EXCEPT ![w] = ""]
    /\ pending' = [pending EXCEPT ![w] = NoResult]
    /\ g' = [g EXCEPT ![w] = NoObs]

\* p.sendError(err); return
SendErrorReturn(w, id, kind) ==
    /\ IF closed
       THEN /\ panicked' = "worker"
            /\ errorQueue' = errorQueue
       ELSE /\ panicked' = panicked
            /\ errorQueue' = TrySend(errorQueue, [id |-> id, kind |-> kind])
    /\ Return(w)

\* case job := <-p.jobQueue; a nil job makes the worker return; otherwise
\* processNotification starts with step 1, the expiry check
WorkerDequeue(w) ==
    /\ panicked = "no" /\ pc[w] = "idle" /\ jobQueue # <<>>
    /\ jobQueue' = Recv(jobQueue)
    /\ LET job == Head(jobQueue) IN
         IF job = Nil
         THEN /\ pc' = [pc EXCEPT ![w] = "exited"]
              /\ UNCHANGED <<panicked, errorQueue, cur, attempt, prov,
                             pending, g>>
         ELSE IF Expired(job)
         THEN SendErrorReturn(w, job.id, "expired")
         ELSE /\ pc' = [pc EXCEPT ![w] = "limit"]
              /\ cur' = [cur EXCEPT ![w] = job]
              /\ UNCHANGED <<panicked, errorQueue, attempt, prov, pending, g>>
    /\ UNCHANGED <<started, quit, ctxDone, stopPc, closed, resultQueue,
                   metricVars, cfgVars, envVars, callVars, restVars>>

\* step 2: RateLimiter.IsAllowed (INCR + EXPIRE, then count <= limit), or
\* the pipeline fails, with nothing, the INCR, or both commands applied;
\* step 3: ProviderManager.GetProvider, then the first Send is issued
LimitCheck(w) ==
    /\ panicked = "no" /\ pc[w] = "limit"
    /\ LET j == cur[w]
           u == j.user
           count == counter[u] + 1
       IN
       \/ \* err != nil
          /\ \E applied \in {"none", "incr", "both"} :
               /\ counter' = IF applied = "none" THEN counter
                             ELSE [counter EXCEPT ![u] = count]
               /\ ttl' = IF applied = "both"
                         THEN [ttl EXCEPT ![u] = Window] ELSE ttl
          /\ SendErrorReturn(w, j.id, "limiter")
          /\ UNCHANGED rateLimited
       \/ \* allowed, no provider registered
          /\ Allowed(count)
          /\ counter' = [counter EXCEPT ![u] = count]
          /\ ttl' = [ttl EXCEPT ![u] = Window]
          /\ providers = <<>>
          /\ SendErrorReturn(w, j.id, "noprovider")
          /\ UNCHANGED rateLimited
       \/ \* allowed, a provider is selected
          /\ Allowed(count)
          /\ counter' = [counter EXCEPT ![u] = count]
          /\ ttl' = [ttl EXCEPT ![u] = Window]
          /\ \E p \in Selectable :
               /\ prov' = [prov EXCEPT ![w] = p]
               /\ g' = [g EXCEPT ![w].sends = @ + 1,
                                 ![w].to = @ \cup {SendTarget(p, 1)}]
          /\ attempt' = [attempt EXCEPT ![w] = 1]
          /\ pc' = [pc EXCEPT ![w] = "send"]
          /\ UNCHANGED <<panicked, errorQueue, rateLimited, cur, pending>>
       \/ \* !allowed
          /\ ~Allowed(count)
          /\ counter' = [counter EXCEPT ![u] = count]
          /\ ttl' = [ttl EXCEPT ![u] = Window]
          /\ rateLimited' = PlusPlus(rateLimited)
          /\ pending' = [pending EXCEPT ![w] =
                 [id |-> j.id, success |-> FALSE, kind |-> "ratelimit",
                  provider |-> "", attempts |-> j.retry + 1]]
          /\ g' = [g EXCEPT ![w].incR = @ + 1]
          /\ pc' = [pc EXCEPT ![w] = "report"]
          /\ UNCHANGED <<panicked, errorQueue, cur, attempt, prov>>
    /\ UNCHANGED <<started, quit, ctxDone, stopPc, closed, jobQueue,
                   resultQueue, processed, failed, cfgVars,
                   deadlinePassed, callVars, restVars>>

(***************************************************************************)
(* Step 4: the attempt loop.  pc = "send" is a provider call in flight,    *)
(* pc = "backoff" the select on time.After(delay) and ctx.Done().          *)
(* MockProvider.Send waits a positive latency in a select with ctx.Done(), *)
(* so it answers only while the context is live; the call fails when the   *)
(* context is cancelled or the 10 s deadline of providerCtx passes.        *)
(***************************************************************************)
\* err != nil: `continue`; past the budget, step 5 (all attempts failed)
SendReturnsError(w) ==
    /\ panicked = "no" /\ pc[w] = "send"
    /\ IF HasAttemptLeft(attempt[w])
       THEN /\ attempt' = [attempt EXCEPT ![w] = @ + 1]
            /\ pc' = [pc EXCEPT ![w] = "backoff"]
            /\ UNCHANGED <<failed, pending, g>>
       ELSE /\ failed' = PlusPlus(failed)
            /\ pending' = [pending EXCEPT ![w] =
                   [id |-> cur[w].id, success |-> FALSE,
                    kind |-> "exhausted", provider |-> prov[w],
                    attempts |-> MaxAttempts]]
            /\ g' = [g EXCEPT ![w].incF = @ + 1]
            /\ pc' = [pc EXCEPT ![w] = "report"]
            /\ UNCHANGED attempt
    /\ UNCHANGED <<poolVars, chanVars, processed, rateLimited, cfgVars,
                   cur, prov, envVars, callVars, restVars>>

\* the provider's latency is over and the context is live: a successful
\* response gets its MessageID from notification.ID[:8], which kills the
\* process on a short ID; otherwise err == nil and the response decides
\* between processed++ and failed++
SendReturnsResponse(w, success) ==
    /\ panicked = "no" /\ pc[w] = "send" /\ ~ctxDone
    /\ panicked' = IF success /\ SliceFails(cur[w]) THEN "provider"
                   ELSE panicked
    /\ IF success /\ SliceFails(cur[w])
       THEN UNCHANGED <<processed, failed, pending, g, pc, attempt>>
       ELSE IF ResponseEndsLoop(success)
       THEN /\ processed' = IF success THEN PlusPlus(processed) ELSE processed
            /\ failed' = IF success THEN failed ELSE PlusPlus(failed)
            /\ pending' = [pending EXCEPT ![w] =
                   [id |-> cur[w].id, success |-> success,
                    kind |-> IF success THEN "sent" ELSE "rejected",
                    provider |-> prov[w], attempts |-> attempt[w]]]
            /\ g' = [g EXCEPT
                       ![w].resp = @ + 1,
                       ![w].incP = IF success THEN @ + 1 ELSE @,
                       ![w].incF = IF success THEN @ ELSE @ + 1]
            /\ pc' = [pc EXCEPT ![w] = "report"]
            /\ UNCHANGED attempt
       ELSE /\ attempt' = [attempt EXCEPT ![w] = @ + 1]
            /\ pc' = [pc EXCEPT ![w] = "backoff"]
            /\ g' = [g EXCEPT ![w].resp = @ + 1]
            /\ UNCHANGED <<processed, failed, pending>>
    /\ UNCHANGED <<started, quit, ctxDone, stopPc, closed, chanVars,
                   rateLimited, cfgVars, cur, prov, envVars, callVars, restVars>>

\* case <-time.After(delay): the next Send is issued
BackoffElapsed(w) ==
    /\ panicked = "no" /\ pc[w] = "backoff" /\ ~ctxDone
    /\ pc' = [pc EXCEPT ![w] = "send"]
    /\ g' = [g EXCEPT ![w].sends = @ + 1,
                      ![w].to = @ \cup {SendTarget(prov[w], attempt[w])}]
    /\ UNCHANGED <<poolVars, chanVars, metricVars, cfgVars, cur, attempt,
                   prov, pending, envVars, callVars, restVars>>

\* case <-ctx.Done(): return, nothing reported
BackoffCancelled(w) ==
    /\ panicked = "no" /\ pc[w] = "backoff" /\ ctxDone
    /\ Return(w)
    /\ UNCHANGED <<poolVars, chanVars, metricVars, cfgVars, envVars,
                   callVars, restVars>>

\* p.sendResult(result); return
Report(w) ==
    /\ panicked = "no" /\ pc[w] = "report"
    /\ IF closed
       THEN /\ panicked' = "worker"
            /\ resultQueue' = resultQueue
            /\ produced' = produced
       ELSE /\ panicked' = panicked
            /\ resultQueue' = TrySend(resultQueue, pending[w])
            /\ produced' = [produced EXCEPT
                              ![IF pending[w].success THEN "success"
                                ELSE "failure"] = @ + 1]
    /\ IF AfterReport(pending[w].kind) = "idle"
       THEN Return(w)
       ELSE /\ pc' = [pc EXCEPT ![w] = AfterReport(pending[w].kind)]
            /\ pending' = [pending EXCEPT ![w] = NoResult]
            /\ g' = [g EXCEPT ![w].res = @ + 1]
            /\ UNCHANGED <<cur, attempt, prov>>
    /\ UNCHANGED <<started, quit, ctxDone, stopPc, closed, jobQueue,
                   errorQueue, metricVars, cfgVars, envVars, calls, submitRet,
                   restVars>>

(***************************************************************************)
(* RateLimiter, called directly and at the grain of the Redis commands.    *)
(* client.Pipeline() queues INCR and EXPIRE and Exec sends them in one     *)
(* round trip, not inside MULTI/EXEC: Redis runs each command atomically   *)
(* and in this order, and may run other clients' commands, or let time     *)
(* pass, between the two.                                                  *)
(***************************************************************************)
\* everything but Redis and the callers of the limiter
nonLimiterVars == <<poolVars, chanVars, metricVars, cfgVars, workerVars,
                    deadlinePassed, callVars, g, healthVars, kafkaVars,
                    moreVars>>

\* TTL key: -2 for a missing key, -1 for a key without expiry
RedisTTL(u) ==
    IF counter[u] = 0 THEN -2 ELSE IF ttl[u] = 0 THEN -1 ELSE ttl[u]

\* GetCurrentCount: GET key, redis.Nil read as 0
CurrentCount(u) == counter[u]

\* GetRemainingCount: rl.limit - current, not below 0
RemainingCount(u) ==
    IF Limit - CurrentCount(u) < 0 THEN 0 ELSE Limit - CurrentCount(u)

\* faulty variant: INCRBY 2
IncrTwice(n) == n + 2

\* INCR key
Incr(n) == n + 1

\* faulty variant: Reset that leaves the key in place
DelKeeps(n) == n

\* DEL key
Del(n) == 0

\* IsAllowed, first command of the pipeline
PipeIncr(c, u) ==
    /\ panicked = "no" /\ lpc[c] = "idle"
    /\ counter[u] < MaxCount
    /\ counter' = [counter EXCEPT ![u] = Incr(@)]
    /\ lcount' = [lcount EXCEPT ![c] = Incr(counter[u])]
    /\ luser' = [luser EXCEPT ![c] = u]
    /\ lpc' = [lpc EXCEPT ![c] = "incr"]
    /\ made' = [made EXCEPT ![u] = @ + 1]
    /\ lpos' = [lpos EXCEPT ![c] = made[u] + 1]
    /\ idle' = [idle EXCEPT ![u] = 0]
    /\ fresh' = [fresh EXCEPT ![u] = FALSE]
    /\ UNCHANGED <<nonLimiterVars, ttl, lret>>

\* IsAllowed, second command of the pipeline (it does nothing to a key
\* that is gone) and the return: count <= limit, or the error of a lost
\* reply
PipeExpire(c, replyLost) ==
    /\ panicked = "no" /\ lpc[c] = "incr"
    /\ LET u == luser[c] IN
         /\ ttl' = IF counter[u] > 0
                   THEN [ttl EXCEPT ![u] = Window] ELSE ttl
         /\ idle' = [idle EXCEPT ![u] = 0]
         /\ fresh' = [fresh EXCEPT ![u] = FALSE]
         /\ lret' =
                [op |-> "IsAllowed", user |-> u,
                 ok |-> ~replyLost /\ Allowed(lcount[c]),
                 err |-> replyLost,
                 val |-> IF replyLost THEN 0 ELSE lcount[c]]
    /\ lpc' = [lpc EXCEPT ![c] = "idle"]
    /\ UNCHANGED <<nonLimiterVars, counter, luser, lcount, lpos, made>>

\* IsAllowed: the connection breaks after the INCR, the EXPIRE never runs
\* and Exec returns an error
PipeBreaks(c) ==
    /\ panicked = "no" /\ lpc[c] = "incr"
    /\ lret' =
           [op |-> "IsAllowed", user |-> luser[c], ok |-> FALSE,
            err |-> TRUE, val |-> 0]
    /\ lpc' = [lpc EXCEPT ![c] = "idle"]
    /\ UNCHANGED <<nonLimiterVars, counter, ttl, luser, lcount, lpos, made,
                   idle, fresh>>

GetCurrentCount(c, u) ==
    /\ panicked = "no" /\ lpc[c] = "idle"
    /\ lret' =
           [op |-> "GetCurrentCount", user |-> u, ok |-> TRUE,
            err |-> FALSE, val |-> CurrentCount(u)]
    /\ UNCHANGED <<nonLimiterVars, counter, ttl, lpc, luser, lcount, lpos,
                   made, idle, fresh>>

GetRemainingCount(c, u) ==
    /\ panicked = "no" /\ lpc[c] = "idle"
    /\ lret' =
           [op |-> "GetRemainingCount", user |-> u, ok |-> TRUE,
            err |-> FALSE, val |-> RemainingCount(u)]
    /\ UNCHANGED <<nonLimiterVars, counter, ttl, lpc, luser, lcount, lpos,
                   made, idle, fresh>>

GetTTL(c, u) ==
    /\ panicked = "no" /\ lpc[c] = "idle"
    /\ lret' =
           [op |-> "GetTTL", user |-> u, ok |-> TRUE, err |-> FALSE,
            val |-> RedisTTL(u)]
    /\ UNCHANGED <<nonLimiterVars, counter, ttl, lpc, luser, lcount, lpos,
                   made, idle, fresh>>

Reset(c, u) ==
    /\ panicked = "no" /\ lpc[c] = "idle"
    /\ counter' = [counter EXCEPT ![u] = Del(@)]
    /\ ttl' = [ttl EXCEPT ![u] = Del(@)]
    /\ made' = [made EXCEPT ![u] = 0]
    /\ fresh' = [fresh EXCEPT ![u] = TRUE]
    /\ lret' =
           [op |-> "Reset", user |-> u, ok |-> TRUE, err |-> FALSE,
            val |-> 0]
    /\ UNCHANGED <<nonLimiterVars, lpc, luser, lcount, lpos, idle>>

\* one tick of the clock: expiries come one tick nearer and the keys whose
\* expiry runs out are dropped
WindowTick ==
    /\ panicked = "no"
    /\ counter' = [u \in Users |-> IF ttl[u] = 1 THEN 0 ELSE counter[u]]
    /\ ttl' = [u \in Users |-> IF ttl[u] > 0 THEN ttl[u] - 1 ELSE 0]
    /\ made' = [u \in Users |-> IF ttl[u] = 1 THEN 0 ELSE made[u]]
    /\ idle' = [u \in Users |->
                 IF idle[u] < Window THEN idle[u] + 1 ELSE idle[u]]
    /\ UNCHANGED <<nonLimiterVars, lpc, luser, lcount, lret, lpos, fresh>>

(***************************************************************************)
(* Pool.IsHealthy over ProviderManager.HealthCheckAll.                     *)
(***************************************************************************)
\* the outcomes HealthCheck can have for the registered providers: a
\* provider whose healthStatus is false fails, any other passes or fails
\* (the 5% random failure, or the caller's context ending)
Probes ==
    {pr \in [1..Len(providers) -> BOOLEAN] :
       \A i \in 1..Len(providers) : pr[i] => healthy[i]}

\* the last provider registered under name n
LastNamed(n) ==
    CHOOSE i \in 1..Len(providers) :
      /\ providers[i] = n
      /\ \A k \in 1..Len(providers) : providers[k] = n => k <= i

\* faulty variant: the last registered provider gets no entry
HealthCheckAllButLast(pr) ==
    [n \in {providers[i] : i \in 1..Len(providers) - 1} |-> pr[LastNamed(n)]]

\* results[provider.Name()] = provider.HealthCheck(ctx), in registration
\* order: a later provider overwrites the entry of an earlier one of the
\* same name
HealthCheckAll(pr) ==
    [n \in {providers[i] : i \in 1..Len(providers)} |-> pr[LastNamed(n)]]

\* healthyCount: the entries of the map with err == nil
HealthyCount(results) == Cardinality({n \in DOMAIN results : results[n]})

\* faulty variant: every entry has to be healthy
NoneHealthyStrict(results) == HealthyCount(results) < Len(providers)

\* if healthyCount == 0
NoneHealthy(results) == HealthyCount(results) = 0

\* IsHealthy: the quit case of the select, else the probes and the count
IsHealthy ==
    /\ panicked = "no"
    /\ IF quit
       THEN /\ healthRet' = "stopped"
            /\ lastProbe' = <<>>
       ELSE \E pr \in Probes :
              /\ lastProbe' = pr
              /\ healthRet' = IF NoneHealthy(HealthCheckAll(pr))
                              THEN "nohealthy" ELSE "nil"
    /\ UNCHANGED <<poolVars, chanVars, metricVars, cfgVars, workerVars,
                   envVars, callVars, g, healthy, limVars, kafkaVars,
                   moreVars>>

\* MockProvider.SetHealthStatus on the i-th registered provider
SetHealthStatus(i, h) ==
    /\ panicked = "no" /\ healthy[i] # h
    /\ healthy' = [healthy EXCEPT ![i] = h]
    /\ UNCHANGED <<poolVars, chanVars, metricVars, cfgVars, workerVars,
                   envVars, callVars, g, healthRet, lastProbe, limVars,
                   kafkaVars, moreVars>>

(***************************************************************************)
(* The simulated Kafka topic (internal/kafka/kafka.go): one buffered       *)
(* channel per topic, a Producer and a Consumer on it, each guarded by its *)
(* own sync.RWMutex.  Produce and Consume hold the read lock from their    *)
(* first line to their return (defer RUnlock), Close takes the write lock. *)
(***************************************************************************)
nonKafkaVars == <<poolVars, chanVars, metricVars, cfgVars, workerVars,
                  envVars, callVars, g, healthVars, limVars, moreVars>>

\* RLock returns when no Lock call holds or waits for the mutex
CanRLock(mu) == ~mu.w

\* faulty variant: Lock does not wait for the readers
CanLockAnytime(mu) == TRUE

\* Lock returns when no reader holds the mutex
CanLock(mu) == mu.r = {}

\* faulty variant: the message is put at the front of the buffer
ChanSendFront(q, m) == <<m>> \o q

\* q <- m on a buffered channel with space: the message goes to the back
ChanSend(q, m) == Append(q, m)

\* the cases of the select of Produce that are ready: the send when the
\* buffer has space, <-p.closed when the channel is closed, the timer
\* when the call has stayed blocked for the 10 seconds
ProduceReady ==
    {w \in {"send"} : Len(kq) < KafkaCap}
      \cup {w \in {"closed"} : pclosed}
      \cup {w \in {"timeout"} : Len(kq) = KafkaCap /\ ~pclosed}

\* the cases of the select of Consume that are ready: the receive when a
\* message is buffered, the timer when the call has stayed blocked for the
\* second
ConsumeReady ==
    {w \in {"recv"} : kq # <<>>} \cup {w \in {"timeout"} : kq = <<>>}

\* a goroutine calls Produce and reaches p.mu.RLock()
ProduceCall(p) ==
    /\ ppc[p] = "idle" /\ sent < MaxProduce
    /\ sent' = sent + 1
    /\ pmsg' = [pmsg EXCEPT ![p] = sent + 1]
    /\ ppc' = [ppc EXCEPT ![p] = "rlock"]
    /\ UNCHANGED <<nonKafkaVars, delivered, kq, prunning, pclosed, pmu, pret, pcl,
                   crunning, cmu, cpc, cret, ccl>>

\* RLock returns; Produce returns "producer is closed" when running is
\* false and the marshalling error when the value cannot be marshalled,
\* and reaches its select otherwise, holding the read lock
ProduceEnter(p, marshals) ==
    /\ ppc[p] = "rlock" /\ CanRLock(pmu)
    /\ IF ~prunning
       THEN /\ pret' = [pret EXCEPT ![p] = "closed"]
            /\ ppc' = [ppc EXCEPT ![p] = "idle"]
            /\ pmu' = pmu
       ELSE IF ~marshals
       THEN /\ pret' = [pret EXCEPT ![p] = "marshal"]
            /\ ppc' = [ppc EXCEPT ![p] = "idle"]
            /\ pmu' = pmu
       ELSE /\ ppc' = [ppc EXCEPT ![p] = "select"]
            /\ pmu' = [pmu EXCEPT !.r = @ \cup {p}]
            /\ pret' = pret
    /\ UNCHANGED <<nonKafkaVars, delivered, kq, sent, prunning, pclosed, pmsg, pcl,
                   crunning, cmu, cpc, cret, ccl>>

\* the select of Produce takes one of its ready cases and Produce returns,
\* releasing the read lock
ProduceSelect(p) ==
    /\ ppc[p] = "select"
    /\ \E way \in ProduceReady :
         /\ kq' = IF way = "send" THEN ChanSend(kq, pmsg[p]) ELSE kq
         /\ pret' = [pret EXCEPT ![p] = IF way = "send" THEN "ok" ELSE way]
    /\ ppc' = [ppc EXCEPT ![p] = "idle"]
    /\ pmu' = [pmu EXCEPT !.r = @ \ {p}]
    /\ UNCHANGED <<nonKafkaVars, delivered, sent, prunning, pclosed, pmsg, pcl,
                   crunning, cmu, cpc, cret, ccl>>

\* a goroutine calls Producer.Close and reaches p.mu.Lock()
ProducerCloseCall ==
    /\ pcl \in {"idle", "done"}
    /\ pcl' = "lock"
    /\ pmu' = [pmu EXCEPT !.w = TRUE]
    /\ UNCHANGED <<nonKafkaVars, delivered, kq, sent, prunning, pclosed, ppc, pmsg,
                   pret, crunning, cmu, cpc, cret, ccl>>

\* Lock returns; Close clears running and closes the closed channel if the
\* producer was running, unlocks and returns
ProducerCloseRun ==
    /\ pcl = "lock" /\ CanLock(pmu)
    /\ IF prunning
       THEN prunning' = FALSE /\ pclosed' = TRUE
       ELSE UNCHANGED <<prunning, pclosed>>
    /\ pmu' = [pmu EXCEPT !.w = FALSE]
    /\ pcl' = "done"
    /\ UNCHANGED <<nonKafkaVars, delivered, kq, sent, ppc, pmsg, pret, crunning, cmu,
                   cpc, cret, ccl>>

\* a goroutine calls Consume and reaches c.mu.RLock()
ConsumeCall(c) ==
    /\ cpc[c] = "idle"
    /\ cpc' = [cpc EXCEPT ![c] = "rlock"]
    /\ cret' = [cret EXCEPT ![c] = NoMsg]
    /\ UNCHANGED <<nonKafkaVars, delivered, kq, sent, prunning, pclosed, pmu, ppc,
                   pmsg, pret, pcl, crunning, cmu, ccl>>

\* RLock returns; Consume returns "consumer is closed" when running is
\* false and reaches its select otherwise, holding the read lock
ConsumeEnter(c) ==
    /\ cpc[c] = "rlock" /\ CanRLock(cmu)
    /\ IF ~crunning
       THEN /\ cret' = [cret EXCEPT ![c] = [res |-> "closed", msg |-> 0]]
            /\ cpc' = [cpc EXCEPT ![c] = "idle"]
            /\ cmu' = cmu
       ELSE /\ cpc' = [cpc EXCEPT ![c] = "select"]
            /\ cmu' = [cmu EXCEPT !.r = @ \cup {c}]
            /\ cret' = cret
    /\ UNCHANGED <<nonKafkaVars, delivered, kq, sent, prunning, pclosed, pmu, ppc,
                   pmsg, pret, pcl, crunning, ccl>>

\* the select of Consume takes one of its ready cases and Consume returns,
\* releasing the read lock
ConsumeSelect(c) ==
    /\ cpc[c] = "select"
    /\ \E way \in ConsumeReady :
         IF way = "recv"
         THEN /\ kq' = Tail(kq)
              /\ delivered' = Append(delivered, Head(kq))
              /\ cret' = [cret EXCEPT ![c] = [res |-> "ok", msg |-> Head(kq)]]
         ELSE /\ kq' = kq
              /\ delivered' = delivered
              /\ cret' = [cret EXCEPT ![c] = [res |-> way, msg |-> 0]]
    /\ cpc' = [cpc EXCEPT ![c] = "idle"]
    /\ cmu' = [cmu EXCEPT !.r = @ \ {c}]
    /\ UNCHANGED <<nonKafkaVars, sent, prunning, pclosed, pmu, ppc, pmsg,
                   pret, pcl, crunning, ccl>>

\* a goroutine calls Consumer.Close and reaches c.mu.Lock()
ConsumerCloseCall ==
    /\ ccl \in {"idle", "done"}
    /\ ccl' = "lock"
    /\ cmu' = [cmu EXCEPT !.w = TRUE]
    /\ UNCHANGED <<nonKafkaVars, delivered, kq, sent, prunning, pclosed, pmu, ppc,
                   pmsg, pret, pcl, crunning, cpc, cret>>

\* Lock returns; Close clears running, unlocks and returns
ConsumerCloseRun ==
    /\ ccl = "lock" /\ CanLock(cmu)
    /\ crunning' = FALSE
    /\ cmu' = [cmu EXCEPT !.w = FALSE]
    /\ ccl' = "done"
    /\ UNCHANGED <<nonKafkaVars, delivered, kq, sent, prunning, pclosed, pmu, ppc,
                   pmsg, pret, pcl, cpc, cret>>

(***************************************************************************)
(* The registry of topics (kafka.go 43-103).  NewProducer and NewConsumer  *)
(* call getOrCreateQueue, which looks the topic up in messageQueues and    *)
(* makes and stores a channel when there is no entry, all under            *)
(* queueMutex.Lock().  A client keeps the channel it was given.            *)
(***************************************************************************)
baseVars == <<poolVars, chanVars, metricVars, cfgVars, workerVars, envVars,
              callVars, g, healthVars, limVars, kafkaVars>>

\* faulty variant: Lock returns although another goroutine holds the mutex
MutexFreeAlways(m) == TRUE

\* queueMutex.Lock() returns when no goroutine holds the mutex
MutexFree(m) == m = ""

\* a goroutine calls NewProducer or NewConsumer for a topic and reaches
\* queueMutex.Lock() in getOrCreateQueue
NewClientCall(n, kind, topic) ==
    /\ npc[n].pc = "idle"
    /\ npc' = [npc EXCEPT ![n] = [pc |-> "lock", kind |-> kind,
                                  topic |-> topic, queue |-> 0]]
    /\ UNCHANGED <<baseVars, rtVars, mgrVars, otherVars, messageQueues, queueMutex, nchan, handles,
                   chans, lastGot>>

\* Lock returns and the topic is looked up: the entry is kept when there
\* is one, a channel is to be made when there is none
QueueLookup(n) ==
    /\ npc[n].pc = "lock" /\ MutexFree(queueMutex)
    /\ queueMutex' = n
    /\ npc' = [npc EXCEPT ![n] =
                 IF messageQueues[npc[n].topic] # 0
                 THEN [npc[n] EXCEPT !.pc = "unlock",
                                     !.queue = messageQueues[npc[n].topic]]
                 ELSE [npc[n] EXCEPT !.pc = "make"]]
    /\ UNCHANGED <<baseVars, rtVars, mgrVars, otherVars, messageQueues, nchan, handles, chans, lastGot>>

\* make(chan *Message, 10000) and messageQueues[topic] = queue
QueueMake(n) ==
    /\ npc[n].pc = "make" /\ nchan < MaxChans
    /\ nchan' = nchan + 1
    /\ messageQueues' = [messageQueues EXCEPT ![npc[n].topic] = nchan + 1]
    /\ npc' = [npc EXCEPT ![n] = [npc[n] EXCEPT !.pc = "unlock",
                                                !.queue = nchan + 1]]
    /\ UNCHANGED <<baseVars, rtVars, mgrVars, otherVars, queueMutex, handles, chans, lastGot>>

\* the deferred Unlock; getOrCreateQueue returns the channel and the
\* producer or consumer is built on it
NewClientReturn(n) ==
    /\ npc[n].pc = "unlock"
    /\ queueMutex' = IF queueMutex = n THEN "" ELSE queueMutex
    /\ handles' = handles \cup {[kind |-> npc[n].kind,
                                 topic |-> npc[n].topic,
                                 queue |-> npc[n].queue]}
    /\ npc' = [npc EXCEPT ![n] = NoCall]
    /\ UNCHANGED <<baseVars, rtVars, mgrVars, otherVars, messageQueues, nchan, chans, lastGot>>

\* Produce on a created producer puts a message with Topic = p.topic on
\* the producer's channel, when the channel has space
HandleProduce(h) ==
    /\ h \in handles /\ h.kind = "producer"
    /\ Len(chans[h.queue]) < KafkaCap
    /\ chans' = [chans EXCEPT ![h.queue] = ChanSend(@, h.topic)]
    /\ UNCHANGED <<baseVars, rtVars, mgrVars, otherVars, messageQueues, queueMutex, nchan, npc, handles,
                   lastGot>>

\* Consume on a created consumer takes the oldest message of the
\* consumer's channel
HandleConsume(h) ==
    /\ h \in handles /\ h.kind = "consumer"
    /\ chans[h.queue] # <<>>
    /\ chans' = [chans EXCEPT ![h.queue] = Tail(@)]
    /\ lastGot' = <<h.topic, Head(chans[h.queue])>>
    /\ UNCHANGED <<baseVars, rtVars, mgrVars, otherVars, messageQueues, queueMutex, nchan, npc, handles>>

(***************************************************************************)
(* The round trip of a NotificationMessage (consumer.go 174-192 and        *)
(* 123-132, struct tags of part_005 8-19) through encoding/json.           *)
(***************************************************************************)
\* a Go string as a JSON string: invalid UTF-8 is replaced by U+FFFD
JSONString(str) == IF str \in InvalidUTF8 THEN Replaced ELSE str

\* the JSON type a Go value is written as
JSONType(kind) ==
    CASE kind \in {"int", "float64"} -> "number"
      [] kind = "string" -> "string"
      [] kind = "bool" -> "bool"

\* the Go type Unmarshal gives a JSON value stored in an interface{}
GoTypeOf(type) ==
    CASE type = "number" -> "float64"
      [] type = "string" -> "string"
      [] type = "bool" -> "bool"

\* json.Marshal of the struct: data is left out when the map has no
\* entry (omitempty), expires_at when the pointer is nil; a time is
\* written in RFC 3339, which has no monotonic reading
Marshal(m) ==
    [sent |-> TRUE,
     id |-> JSONString(m.ID), user_id |-> JSONString(m.UserID),
     type |-> JSONString(m.Type), title |-> JSONString(m.Title),
     body |-> JSONString(m.Body),
     hasData |-> m.Data.has,
     dataType |-> IF m.Data.has THEN JSONType(m.Data.kind) ELSE "",
     dataN |-> m.Data.n,
     priority |-> m.Priority,
     created_at |-> m.CreatedAt.at,
     hasExpires |-> ~m.ExpiresAt.isNil,
     expires_at |-> m.ExpiresAt.at,
     retry |-> m.Retry]

\* json.Unmarshal into a zero NotificationMessage: a key that is absent
\* leaves the zero value of its field
Unmarshal(d) ==
    [ID |-> d.id, UserID |-> d.user_id, Type |-> d.type, Title |-> d.title,
     Body |-> d.body,
     Data |-> IF d.hasData THEN OneData(GoTypeOf(d.dataType), d.dataN)
              ELSE NilData,
     Priority |-> d.priority,
     CreatedAt |-> Time(d.created_at, FALSE),
     ExpiresAt |-> IF d.hasExpires THEN PtrTime(d.expires_at, FALSE)
                   ELSE NilTime,
     Retry |-> d.retry]

\* Producer.Send marshals the message and hands it to the broker; when
\* SendMessage fails nothing is put on the topic
ProducerSend(m, accepted) ==
    /\ rtMsg = NoMessage
    /\ rtMsg' = m
    /\ rtWire' = IF accepted THEN Marshal(m) ELSE NoDoc
    /\ UNCHANGED <<baseVars, regVars, mgrVars, otherVars, rtBack>>

\* ConsumeClaim takes the document from the claim and unmarshals it
ConsumeClaim ==
    /\ rtWire.sent /\ rtBack = NoMessage
    /\ rtBack' = Unmarshal(rtWire)
    /\ UNCHANGED <<baseVars, regVars, mgrVars, otherVars, rtMsg, rtWire>>

\* the next message: the producer and the handler keep nothing of the last
NextMessage ==
    /\ rtMsg # NoMessage
    /\ rtMsg' = NoMessage /\ rtWire' = NoDoc /\ rtBack' = NoMessage
    /\ UNCHANGED <<baseVars, regVars, mgrVars, otherVars>>

(***************************************************************************)
(* The provider manager (README.md 391-464): the registry AddProvider      *)
(* appends to, GetProvider under the manager's strategy, HealthCheckAll.   *)
(* A provider is known by its place in pm.providers, counted from 1.       *)
(***************************************************************************)
nonManagerVars == <<poolVars, chanVars, metricVars, workers, workerVars,
                    envVars, callVars, g, healthRet, lastProbe, limVars,
                    kafkaVars, regVars, rtVars, otherVars>>

\* faulty variant: the index may be one past the providers
RandIntnOffByOne(n) == 0..n

\* rand.Intn(n), as places counted from 1
RandIntn(n) == 1..n

\* faulty variant: the last provider whose probe passed
LastPassing(pr) ==
    IF \E i \in DOMAIN pr : pr[i]
    THEN CHOOSE i \in DOMAIN pr : pr[i] /\ \A k \in DOMAIN pr : pr[k] => k <= i
    ELSE 1

\* the HealthBased loop: the first provider whose HealthCheck returns nil,
\* pm.providers[0] when there is none
FirstPassing(pr) ==
    IF \E i \in DOMAIN pr : pr[i]
    THEN CHOOSE i \in DOMAIN pr : pr[i] /\ \A k \in DOMAIN pr : pr[k] => i <= k
    ELSE 1

\* NewProviderManager(strategy): a manager with no provider
NewProviderManager(st) ==
    /\ strategy' = st
    /\ providers' = <<>> /\ healthy' = <<>>
    /\ UNCHANGED <<nonManagerVars, gpRet, hcaRet>>

\* AddProvider(NewMockProvider(name, ..)): appended whatever its name
AddProvider(name) ==
    /\ Len(providers) < MaxProviders
    /\ providers' = Append(providers, name)
    /\ healthy' = Append(healthy, TRUE)
    /\ UNCHANGED <<nonManagerVars, strategy, gpRet, hcaRet>>

\* GetProvider: the error on an empty registry; a drawn index under
\* RoundRobin and Random; the probes in registration order under
\* HealthBased; pm.providers[0] under any other strategy
GetProvider ==
    /\ IF Len(providers) = 0
       THEN gpRet' = [res |-> "error", index |-> 0, probes |-> <<>>]
       ELSE CASE strategy \in {"RoundRobin", "Random"} ->
                   \E i \in RandIntn(Len(providers)) :
                     gpRet' = [res |-> "ok", index |-> i, probes |-> <<>>]
              [] strategy = "HealthBased" ->
                   \E pr \in Probes :
                     gpRet' = [res |-> "ok", index |-> FirstPassing(pr),
                               probes |-> pr]
              [] OTHER ->
                   gpRet' = [res |-> "ok", index |-> 1, probes |-> <<>>]
    /\ UNCHANGED <<nonManagerVars, providers, healthy, strategy, hcaRet>>

\* a call of HealthCheckAll on the manager
CallHealthCheckAll ==
    /\ \E pr \in Probes :
         hcaRet' = [called |-> TRUE, results |-> HealthCheckAll(pr),
                    probes |-> pr]
    /\ UNCHANGED <<nonManagerVars, providers, healthy, strategy, gpRet>>

(***************************************************************************)
(* MockProvider.Send.  Strings are sequences of characters; a probability  *)
(* is a number of hundredths.                                              *)
(***************************************************************************)
\* the names given to NewMockProvider
MockProviderNames == {<<>>, <<"f", "c", "m">>}

\* the success rates given to NewMockProvider: 0.0, 0.5, 1.0
SuccessRates == {0, 50, 100}

\* rand.Float64() returns a number of [0.0, 1.0)
RandFloat64 == {0, 49, 50, 99}

\* time.Now().Unix() printed with %d
UnixTimes == {<<"0">>, <<"1", "7">>}

\* the IDs of the notifications sent: of 0, 3, 8 and 9 bytes
NotificationIDs ==
    {<<>>, <<"a", "b", "c">>,
     <<"t", "e", "s", "t", "-", "1", "2", "3">>,
     <<"t", "e", "s", "t", "-", "1", "2", "3", "4">>,
     <<"u", "u", "i", "d", "-", "0", "0", "1", "7">>}

\* the five failures of the failures slice
failures ==
    <<"network timeout", "rate limit exceeded", "invalid token",
      "service unavailable", "message too large">>

\* the ID[:8] of the message id
IdPrefix == 8

\* s[:n] of Go: the first n bytes, for n within the string
SliceTo(s, n) == SubSeq(s, 1, n)

\* s[:n] panics when n exceeds len(s)
SliceInRange(s, n) == n <= Len(s)

\* fmt.Sprintf("%s_%d_%s", name, unix, prefix)
Sprintf(name, unix, prefix) == name \o <<"_">> \o unix \o <<"_">> \o prefix

NewMockProvider(name, rate) ==
    /\ mpCall.pc = "idle"
    /\ mp' = [name |-> name, successRate |-> rate]
    /\ UNCHANGED <<baseVars, regVars, rtVars, mgrVars, stopVars, svcVars, tailVars, mpCall, mpRet>>

\* Send is called with a notification and a context, which may be done
\* already; it computes the latency and waits in its select
MockSendCall(id, ctx) ==
    /\ mpCall.pc = "idle"
    /\ mpCall' = [pc |-> "select", id |-> id, ctx |-> ctx]
    /\ UNCHANGED <<baseVars, regVars, rtVars, mgrVars, stopVars, svcVars, tailVars, mp, mpRet>>

\* the context of the call is cancelled, or its deadline passes, while
\* Send waits
MockCtxDone(err) ==
    /\ mpCall.pc = "select" /\ mpCall.ctx = "live"
    /\ mpCall' = [mpCall EXCEPT !.ctx = err]
    /\ UNCHANGED <<baseVars, regVars, rtVars, mgrVars, stopVars, svcVars, tailVars, mp, mpRet>>

\* case <-ctx.Done(): return nil, ctx.Err()
MockSendCtxDone ==
    /\ mpCall.pc = "select" /\ mpCall.ctx # "live"
    /\ mpRet' = [out |-> "error", err |-> mpCall.ctx]
    /\ mpCall' = NoSend
    /\ UNCHANGED <<baseVars, regVars, rtVars, mgrVars, stopVars, svcVars, tailVars, mp>>

\* case <-time.After(latency): the Bernoulli trial, then the message id of
\* a success or the reason of a failure.  The select takes this case also
\* with the context done, when the timer has fired as well.
MockSendAfter ==
    /\ mpCall.pc = "select"
    /\ \E draw \in RandFloat64 :
         LET success == draw < mp.successRate IN
           IF success
           THEN IF SliceInRange(mpCall.id, IdPrefix)
                THEN \E unix \in UnixTimes :
                       mpRet' = [out |-> "response", Success |-> TRUE,
                                 MessageID |->
                                   Sprintf(mp.name, unix,
                                           SliceTo(mpCall.id, IdPrefix)),
                                 Error |-> ""]
                ELSE mpRet' = [out |-> "panic"]
           ELSE \E k \in 1..Len(failures) :
                  mpRet' = [out |-> "response", Success |-> FALSE,
                            MessageID |-> <<>>, Error |-> failures[k]]
    /\ mpCall' = NoSend
    /\ UNCHANGED <<baseVars, regVars, rtVars, mgrVars, stopVars, svcVars, tailVars, mp>>

(***************************************************************************)
(* The consumer of the broker's consumer group: Start and Stop.            *)
(***************************************************************************)
\* how many errors the consumer group emits on Errors()
MaxGroupErrors == 2

\* the capacity of handler.errorChan
ErrorChanCap == 1

\* a goroutine of the wait group is counted out: it never started or it
\* has run its deferred c.wg.Done()
WgDone(pcOf) == pcOf \in {"off", "done"}

\* Start: both goroutines are added to the wait group and started
ConsumerStart ==
    /\ scPc.loop = "off" /\ scPc.stop = "none"
    /\ scPc' = [scPc EXCEPT !.loop = "consume", !.monitor = "range"]
    /\ UNCHANGED <<baseVars, regVars, rtVars, mgrVars, mockVars, svcVars, tailVars, scCtxDone,
                   scErrors, scErrorChan>>

\* consumerGroup.Consume returns to the loop, with an error or without:
\* at a rebalance, at an error of the session, and once c.ctx is done
ConsumeReturns(err) ==
    /\ scPc.loop = "consume"
    /\ scPc' = [scPc EXCEPT !.loop = IF err THEN "report" ELSE "check"]
    /\ UNCHANGED <<baseVars, regVars, rtVars, mgrVars, mockVars, svcVars, tailVars, scCtxDone,
                   scErrors, scErrorChan>>

\* Consume returns because c.ctx is done
ConsumeReturnsOnCancel == scCtxDone /\ \E err \in BOOLEAN : ConsumeReturns(err)

\* the select of the loop on an error of Consume: the error goes to
\* errorChan, or c.ctx is done and the goroutine returns
LoopReport ==
    /\ scPc.loop = "report"
    /\ \/ /\ scErrorChan < ErrorChanCap
          /\ scErrorChan' = scErrorChan + 1
          /\ scPc' = [scPc EXCEPT !.loop = "check"]
       \/ /\ scCtxDone
          /\ scPc' = [scPc EXCEPT !.loop = "done"]
          /\ UNCHANGED scErrorChan
    /\ UNCHANGED <<baseVars, regVars, rtVars, mgrVars, mockVars, svcVars, tailVars, scCtxDone,
                   scErrors>>

\* if c.ctx.Err() != nil { return }, else the next Consume
LoopCheck ==
    /\ scPc.loop = "check"
    /\ scPc' = [scPc EXCEPT !.loop = IF scCtxDone THEN "done" ELSE "consume"]
    /\ UNCHANGED <<baseVars, regVars, rtVars, mgrVars, mockVars, svcVars, tailVars, scCtxDone,
                   scErrors, scErrorChan>>

\* the consumer group puts an error on its Errors() channel
GroupError ==
    /\ scPc.loop # "off" /\ ~scErrors.closed
    /\ scErrors.emitted < MaxGroupErrors
    /\ scErrors' = [scErrors EXCEPT !.len = @ + 1, !.emitted = @ + 1]
    /\ UNCHANGED <<baseVars, regVars, rtVars, mgrVars, mockVars, svcVars, tailVars, scPc,
                   scCtxDone, scErrorChan>>

\* for err := range c.consumerGroup.Errors(): the next error, or the end of
\* the loop when the channel is closed and empty; the goroutine waits here
\* as long as the channel is open and empty
MonitorReceive ==
    /\ scPc.monitor = "range"
    /\ IF scErrors.len > 0
       THEN /\ scErrors' = [scErrors EXCEPT !.len = @ - 1]
            /\ scPc' = [scPc EXCEPT !.monitor = "report"]
       ELSE /\ scErrors.closed
            /\ scPc' = [scPc EXCEPT !.monitor = "done"]
            /\ UNCHANGED scErrors
    /\ UNCHANGED <<baseVars, regVars, rtVars, mgrVars, mockVars, svcVars, tailVars, scCtxDone,
                   scErrorChan>>

\* the select of the monitor on an error received: the error goes to
\* errorChan and the range goes on, or c.ctx is done and the goroutine
\* returns
MonitorReport ==
    /\ scPc.monitor = "report"
    /\ \/ /\ scErrorChan < ErrorChanCap
          /\ scErrorChan' = scErrorChan + 1
          /\ scPc' = [scPc EXCEPT !.monitor = "range"]
       \/ /\ scCtxDone
          /\ scPc' = [scPc EXCEPT !.monitor = "done"]
          /\ UNCHANGED scErrorChan
    /\ UNCHANGED <<baseVars, regVars, rtVars, mgrVars, mockVars, svcVars, tailVars, scCtxDone,
                   scErrors>>

\* the service takes an error from errorChan
ReadErrorChan ==
    /\ scErrorChan > 0
    /\ scErrorChan' = scErrorChan - 1
    /\ UNCHANGED <<baseVars, regVars, rtVars, mgrVars, mockVars, svcVars, tailVars, scPc,
                   scCtxDone, scErrors>>

\* Stop: c.cancel()
ConsumerStop ==
    /\ scPc.stop = "none"
    /\ scCtxDone' = TRUE
    /\ scPc' = [scPc EXCEPT !.stop = "wait"]
    /\ UNCHANGED <<baseVars, regVars, rtVars, mgrVars, mockVars, svcVars, tailVars, scErrors,
                   scErrorChan>>

\* Stop: c.wg.Wait() returns when both goroutines are done
ConsumerStopWait ==
    /\ scPc.stop = "wait"
    /\ WgDone(scPc.loop) /\ WgDone(scPc.monitor)
    /\ scPc' = [scPc EXCEPT !.stop = "close"]
    /\ UNCHANGED <<baseVars, regVars, rtVars, mgrVars, mockVars, svcVars, tailVars, scCtxDone,
                   scErrors, scErrorChan>>

\* Stop: return c.consumerGroup.Close(), which closes the Errors() channel
ConsumerStopClose ==
    /\ scPc.stop = "close"
    /\ scErrors' = [scErrors EXCEPT !.closed = TRUE]
    /\ scPc' = [scPc EXCEPT !.stop = "returned"]
    /\ UNCHANGED <<baseVars, regVars, rtVars, mgrVars, mockVars, svcVars, tailVars, scCtxDone,
                   scErrorChan>>

(***************************************************************************)
(* The consumer service: processMessage on the notifications of its topic. *)
(***************************************************************************)
\* Consumer.maxRetries
maxRetries == 3

\* how many notifications wait on the topic of the service at a time
MaxOnTopic == 1

\* n.RetryCount < maxRetries
CanRetry(n, max) == n.RetryCount < max

\* n.RetryCount++; n.Status = StatusRetry
IncrementRetry(n) == [n EXCEPT !.RetryCount = @ + 1, !.Status = "retry"]

\* n.Status = StatusFailed
MarkAsFailed(n) == [n EXCEPT !.Status = "failed"]

\* n.Status = StatusSent
MarkAsSent(n) == [n EXCEPT !.Status = "sent"]

\* how far the clock of the service runs
MaxTime == 2

\* the ScheduleAt of a notification: nil, or a time
ScheduleAts == {[isNil |-> TRUE, at |-> 0]} \cup
               {[isNil |-> FALSE, at |-> t] : t \in 1..MaxTime}

\* n.ScheduleAt != nil && n.ScheduleAt.After(time.Now())
IsScheduled(n, now) == ~n.ScheduleAt.isNil /\ n.ScheduleAt.at > now

\* a producer puts a notification on the topic: the API with the retry
\* count 0 of NewNotification, any other producer with the retry_count of
\* its JSON document
Publish(id, rc, at) ==
    /\ Len(svcTopic) < MaxOnTopic
    /\ svcTopic' = Append(svcTopic,
                          [ID |-> id, RetryCount |-> rc, Status |-> "pending",
                           ScheduleAt |-> at])
    /\ UNCHANGED <<baseVars, regVars, rtVars, mgrVars, mockVars, stopVars, tailVars,
                   svcStatus, svcNow, svcLast>>

\* time passes
ServiceTick ==
    /\ svcNow < MaxTime
    /\ svcNow' = svcNow + 1
    /\ UNCHANGED <<baseVars, regVars, rtVars, mgrVars, mockVars, stopVars, tailVars,
                   svcTopic, svcStatus, svcLast>>

\* processMessage of a worker on the next message of the topic: a
\* scheduled notification is committed unprocessed; otherwise
\* processNotification delivers or fails, the notification is marked, its
\* status goes to Redis (an error of Redis is only logged) and the message
\* is committed.  Nothing puts the notification back on the topic.
processMessage(delivered_, redisOk) ==
    /\ svcTopic # <<>>
    /\ LET msg == Head(svcTopic)
           n == [ID |-> msg.ID, RetryCount |-> msg.RetryCount,
                 Status |-> msg.Status, delivery |-> "none"]
           after == IF delivered_ THEN MarkAsSent(n)
                    ELSE IF CanRetry(n, maxRetries) THEN IncrementRetry(n)
                    ELSE MarkAsFailed(n)
       IN IF IsScheduled(msg, svcNow)
          THEN /\ svcLast' = [n EXCEPT !.delivery = "skipped"]
               /\ UNCHANGED svcStatus
          ELSE /\ svcLast' = [after EXCEPT !.delivery =
                                IF delivered_ THEN "ok" ELSE "failed"]
               /\ svcStatus' = IF redisOk
                               THEN [svcStatus EXCEPT ![n.ID] = after.Status]
                               ELSE svcStatus
    /\ svcTopic' = Tail(svcTopic)
    /\ UNCHANGED <<baseVars, regVars, rtVars, mgrVars, mockVars, stopVars, tailVars,
                   svcNow>>

(***************************************************************************)
(* The attempt loop of processNotification by itself, for pools of any     *)
(* retry budget: its attempts and the time it waits between them, in the   *)
(* unit of the smallest retryDelay.                                        *)
(***************************************************************************)
\* the retryAttempts and the retryDelay NewPool is given
MaxRetryAttempts == 3
MaxRetryDelay == 2

\* faulty variant: the exponential backoff the comment in the code names
BackoffDelayExponential(retryDelay, k) == retryDelay * 2 ^ (k - 1)

\* delay := p.retryDelay * time.Duration(attempt-1)
BackoffDelay(retryDelay, k) == retryDelay * (k - 1)

\* the loop is over: the worker is back at its select
LoopOver == bk.pc \in {"idle", "reported", "exhausted", "abandoned"}

\* for attempt := 1; attempt <= maxAttempts; attempt++: the head of the
\* loop at attempt k, with `if attempt > 1` choosing between the wait and
\* the Send
LoopHead(b, k) ==
    IF k > b.retryAttempts + 1 THEN [b EXCEPT !.attempt = k, !.pc = "exhausted"]
    ELSE IF k > 1 THEN [b EXCEPT !.attempt = k, !.pc = "wait"]
    ELSE [b EXCEPT !.attempt = k, !.pc = "send"]

\* a worker of a pool with these settings enters the loop
LoopEnter(ra, rd) ==
    /\ LoopOver
    /\ bk' = LoopHead([retryAttempts |-> ra, retryDelay |-> rd, attempt |-> 0,
                       waited |-> 0, pc |-> "idle"], 1)
    /\ UNCHANGED <<baseVars, regVars, rtVars, mgrVars, mockVars, stopVars,
                   svcVars, mainSvc, cc>>

\* case <-time.After(delay): the Send of this attempt is issued
LoopWaitElapses ==
    /\ bk.pc = "wait"
    /\ bk' = [bk EXCEPT !.pc = "send",
                        !.waited = @ + BackoffDelay(bk.retryDelay, bk.attempt)]
    /\ UNCHANGED <<baseVars, regVars, rtVars, mgrVars, mockVars, stopVars,
                   svcVars, mainSvc, cc>>

\* case <-ctx.Done(): return
LoopWaitCancelled ==
    /\ bk.pc = "wait"
    /\ bk' = [bk EXCEPT !.pc = "abandoned"]
    /\ UNCHANGED <<baseVars, regVars, rtVars, mgrVars, mockVars, stopVars,
                   svcVars, mainSvc, cc>>

\* Send returns an error: continue
LoopSendFails ==
    /\ bk.pc = "send"
    /\ bk' = LoopHead(bk, bk.attempt + 1)
    /\ UNCHANGED <<baseVars, regVars, rtVars, mgrVars, mockVars, stopVars,
                   svcVars, mainSvc, cc>>

\* Send returns a response: sendResult and return
LoopSendAnswers ==
    /\ bk.pc = "send"
    /\ bk' = [bk EXCEPT !.pc = "reported"]
    /\ UNCHANGED <<baseVars, regVars, rtVars, mgrVars, mockVars, stopVars,
                   svcVars, mainSvc, cc>>

(***************************************************************************)
(* The Service of cmd/main.go around the pool.  Service.Start starts the   *)
(* pool, the Kafka consumer and the processMessages goroutine; Service.Stop*)
(* cancels the context the pool and processMessages share, shuts the HTTP  *)
(* server and the consumer down, calls workerPool.Stop, and waits for its  *)
(* goroutines (s.wg.Wait) only at its very end.  The pool's own actions    *)
(* are the steps of workerPool.Start, s.cancel, workerPool.Stop and        *)
(* workerPool.Submit.                                                      *)
(***************************************************************************)
\* go s.processMessages(), after workerPool.Start and kafkaConsumer.Start
ProcessMessagesStart ==
    /\ started /\ mainSvc.pm = "new"
    /\ mainSvc' = [mainSvc EXCEPT !.pm = "select"]
    /\ UNCHANGED <<baseVars, regVars, rtVars, mgrVars, mockVars, stopVars,
                   svcVars, bk, cc>>

\* the consumer hands a decoded notification to messageChan; it does so
\* until kafkaConsumer.Stop has stopped it
MessageArrives ==
    /\ started /\ mainSvc.stop = "none"
    /\ mainSvc.inbox < MaxQueueSize
    /\ calls + mainSvc.inbox + (IF mainSvc.pm = "submit" THEN 1 ELSE 0)
         < MaxSubmit - 1
    /\ mainSvc' = [mainSvc EXCEPT !.inbox = @ + 1]
    /\ UNCHANGED <<baseVars, regVars, rtVars, mgrVars, mockVars, stopVars,
                   svcVars, bk, cc>>

\* case msg := <-s.messageChan (msg is not nil): Submit is called next;
\* the select takes this case whether or not ctx.Done() is ready too
ProcessMessagesReceive ==
    /\ panicked = "no" /\ mainSvc.pm = "select" /\ mainSvc.inbox > 0
    /\ mainSvc' = [mainSvc EXCEPT !.pm = "submit", !.seen = calls,
                                  !.inbox = @ - 1]
    /\ UNCHANGED <<baseVars, regVars, rtVars, mgrVars, mockVars, stopVars,
                   svcVars, bk, cc>>

\* case <-s.ctx.Done(): return
ProcessMessagesCtxDone ==
    /\ panicked = "no" /\ mainSvc.pm = "select" /\ ctxDone
    /\ mainSvc' = [mainSvc EXCEPT !.pm = "exited"]
    /\ UNCHANGED <<baseVars, regVars, rtVars, mgrVars, mockVars, stopVars,
                   svcVars, bk, cc>>

\* s.workerPool.Submit(msg) is the next step of processMessages
AtSubmit == mainSvc.pm = "submit" /\ calls = mainSvc.seen

\* Submit has returned (nil or the queue-full error, which is logged):
\* back to the select
ProcessMessagesLoop ==
    /\ panicked = "no" /\ mainSvc.pm = "submit" /\ calls > mainSvc.seen
    /\ mainSvc' = [mainSvc EXCEPT !.pm = "select"]
    /\ UNCHANGED <<baseVars, regVars, rtVars, mgrVars, mockVars, stopVars,
                   svcVars, bk, cc>>

\* Service.Stop after s.cancel(): httpServer.Shutdown and
\* kafkaConsumer.Stop have returned; workerPool.Stop is next
ServiceStopConsumer ==
    /\ panicked = "no" /\ ctxDone /\ mainSvc.stop = "none"
    /\ mainSvc' = [mainSvc EXCEPT !.stop = "consumerStopped"]
    /\ UNCHANGED <<baseVars, regVars, rtVars, mgrVars, mockVars, stopVars,
                   svcVars, bk, cc>>

\* Service.Stop at its end: s.wg.Wait() returns when processMessages (and
\* the goroutines beside it) have returned
ServiceStopReturns ==
    /\ panicked = "no" /\ mainSvc.stop = "consumerStopped" /\ stopPc = "done"
    /\ mainSvc.pm = "exited"
    /\ mainSvc' = [mainSvc EXCEPT !.stop = "stopped"]
    /\ UNCHANGED <<baseVars, regVars, rtVars, mgrVars, mockVars, stopVars,
                   svcVars, bk, cc>>

(***************************************************************************)
(* ConsumerGroupHandler.ConsumeClaim (consumer.go): one call, over one     *)
(* claim.  A message is its offset and whether its value is the JSON of a  *)
(* notification.  messageChan has the MaxQueueSize of the service,         *)
(* errorChan its own capacity; the readers of both are the goroutines of   *)
(* the service.                                                            *)
(***************************************************************************)
\* the messages the claim delivers
MaxClaim == 3

\* faulty variant: every value decodes
UnmarshalsAnything(m) == TRUE

\* json.Unmarshal(message.Value, &notification) returns no error
Unmarshals(m) == m.valid

\* what ConsumeClaim leaves alone
claimFrame == <<baseVars, regVars, rtVars, mgrVars, mockVars, stopVars,
                svcVars, bk, mainSvc>>

\* the broker delivers the next message of the partition to the claim
ClaimMessageArrives(valid) ==
    /\ ~cc.closed /\ cc.arrived < MaxClaim
    /\ cc' = [cc EXCEPT !.arrived = @ + 1,
                        !.claim = Append(@, [offset |-> cc.arrived + 1,
                                             valid |-> valid])]
    /\ UNCHANGED claimFrame

\* the session ends: sarama closes the Messages() channel
ClaimMessagesClosed ==
    /\ ~cc.closed /\ cc.done
    /\ cc' = [cc EXCEPT !.closed = TRUE]
    /\ UNCHANGED claimFrame

\* the session context is cancelled
SessionDone ==
    /\ ~cc.done
    /\ cc' = [cc EXCEPT !.done = TRUE]
    /\ UNCHANGED claimFrame

\* case message := <-claim.Messages(), a message: decode it and go to the
\* select that reports the error or to the one that hands it over
ClaimReceive ==
    /\ cc.pc = "select" /\ cc.claim # <<>>
    /\ cc' = [cc EXCEPT !.claim = Tail(@), !.msg = Head(cc.claim),
                        !.pc = IF Unmarshals(Head(cc.claim)) THEN "handoff"
                               ELSE "report"]
    /\ UNCHANGED claimFrame

\* case message := <-claim.Messages() on the closed channel: nil, return
ClaimReceiveNil ==
    /\ cc.pc = "select" /\ cc.claim = <<>> /\ cc.closed
    /\ cc' = [cc EXCEPT !.pc = "returned"]
    /\ UNCHANGED claimFrame

\* case <-session.Context().Done(): return nil, in any of the three selects
ClaimReturnsOnDone ==
    /\ cc.pc \in {"select", "report", "handoff"} /\ cc.done
    /\ cc' = [cc EXCEPT !.pc = "returned"]
    /\ UNCHANGED claimFrame

\* case h.errorChan <- fmt.Errorf(...): continue
ClaimReportsError ==
    /\ cc.pc = "report" /\ Len(cc.errorChan) < ErrorChanCap
    /\ cc' = [cc EXCEPT !.errorChan = Append(@, cc.msg.offset),
                        !.reported = @ \cup {cc.msg.offset},
                        !.msg = NoClaimMessage, !.pc = "select"]
    /\ UNCHANGED claimFrame

\* case h.messageChan <- &notification
ClaimHandsOver ==
    /\ cc.pc = "handoff" /\ Len(cc.messageChan) < MaxQueueSize
    /\ cc' = [cc EXCEPT !.messageChan = Append(@, cc.msg.offset),
                        !.handed = @ \cup {cc.msg.offset},
                        !.pc = "mark"]
    /\ UNCHANGED claimFrame

\* session.MarkMessage(message, ""), and the next turn of the loop
ClaimMarks ==
    /\ cc.pc = "mark"
    /\ cc' = [cc EXCEPT !.marked = @ \cup {cc.msg.offset},
                        !.msg = NoClaimMessage, !.pc = "select"]
    /\ UNCHANGED claimFrame

\* processMessages takes a notification from messageChan
MessageChanRead ==
    /\ cc.messageChan # <<>>
    /\ cc' = [cc EXCEPT !.messageChan = Tail(@)]
    /\ UNCHANGED claimFrame

\* processErrors takes an error from errorChan
ErrorChanRead ==
    /\ cc.errorChan # <<>>
    /\ cc' = [cc EXCEPT !.errorChan = Tail(@)]
    /\ UNCHANGED claimFrame

\* a step of the ConsumeClaim goroutine
ClaimStep ==
    \/ ClaimReceive
    \/ ClaimReceiveNil
    \/ ClaimReturnsOnDone
    \/ ClaimReportsError
    \/ ClaimHandsOver
    \/ ClaimMarks

(***************************************************************************)
(* The system.                                                             *)
(***************************************************************************)
Next ==
    \/ Start
    \/ \E n \in Notifications(calls + 1) \cup {Nil} : Submit(n)
    \/ SubmitClosed
    \/ StopSignal
    \/ StopClose
    \/ Cancel
    \/ Tick
    \/ \E u \in Users : KeyExpire(u)
    \/ DrainResult
    \/ DrainError
    \/ \E w \in workers : WorkerQuit(w)
    \/ \E w \in workers : WorkerCtxDone(w)
    \/ \E w \in workers : WorkerDequeue(w)
    \/ \E w \in workers : LimitCheck(w)
    \/ \E w \in workers : SendReturnsError(w)
    \/ \E w \in workers, success \in BOOLEAN : SendReturnsResponse(w, success)
    \/ \E w \in workers : BackoffElapsed(w)
    \/ \E w \in workers : BackoffCancelled(w)
    \/ \E w \in workers : Report(w)

Spec == Init /\ [][Next]_vars

\* the steps of a pool that is neither stopped nor cancelled, with one
\* Submit call fewer than the bound
NextRunning ==
    \/ Start
    \/ \E n \in Notifications(calls + 1) \cup {Nil} :
         calls < MaxSubmit - 1 /\ Submit(n)
    \/ Tick
    \/ \E u \in Users : KeyExpire(u)
    \/ DrainResult
    \/ DrainError
    \/ \E w \in workers : WorkerDequeue(w)
    \/ \E w \in workers : LimitCheck(w)
    \/ \E w \in workers : SendReturnsError(w)
    \/ \E w \in workers, success \in BOOLEAN : SendReturnsResponse(w, success)
    \/ \E w \in workers : BackoffElapsed(w)
    \/ \E w \in workers : Report(w)

\* two workers, while the pool runs
SpecTwo == InitTwo /\ [][NextRunning]_vars

\* a step of worker w, whichever its position offers: the scheduler runs
\* every goroutine that can run, and the limiter and provider calls return
WorkerStep(w) ==
    \/ WorkerDequeue(w)
    \/ LimitCheck(w)
    \/ SendReturnsError(w)
    \/ \E success \in BOOLEAN : SendReturnsResponse(w, success)
    \/ BackoffElapsed(w)
    \/ Report(w)

\* one worker, while the pool runs, under fair scheduling
SpecLive ==
    /\ Init /\ [][NextRunning]_vars
    /\ \A w \in WorkerIds : WF_vars(WorkerStep(w))

\* the running pool, and the cancellation of its context
NextCancelled ==
    \/ Start
    \/ \E n \in Notifications(calls + 1) \cup {Nil} :
         calls < MaxSubmit - 1 /\ Submit(n)
    \/ Cancel
    \/ Tick
    \/ \E u \in Users : KeyExpire(u)
    \/ DrainResult
    \/ DrainError
    \/ \E w \in workers : WorkerCtxDone(w)
    \/ \E w \in workers : WorkerDequeue(w)
    \/ \E w \in workers : LimitCheck(w)
    \/ \E w \in workers : SendReturnsError(w)
    \/ \E w \in workers, success \in BOOLEAN : SendReturnsResponse(w, success)
    \/ \E w \in workers : BackoffElapsed(w)
    \/ \E w \in workers : BackoffCancelled(w)
    \/ \E w \in workers : Report(w)

\* the same while no rate-limit key runs out
NextCounting ==
    \/ Start
    \/ \E n \in Notifications(calls + 1) \cup {Nil} :
         calls < MaxSubmit - 1 /\ Submit(n)
    \/ Cancel
    \/ Tick
    \/ DrainResult
    \/ DrainError
    \/ \E w \in workers : WorkerCtxDone(w)
    \/ \E w \in workers : WorkerDequeue(w)
    \/ \E w \in workers : LimitCheck(w)
    \/ \E w \in workers : SendReturnsError(w)
    \/ \E w \in workers, success \in BOOLEAN : SendReturnsResponse(w, success)
    \/ \E w \in workers : BackoffElapsed(w)
    \/ \E w \in workers : BackoffCancelled(w)
    \/ \E w \in workers : Report(w)

\* two workers, until the context is cancelled and after
SpecCancelled == InitTwo /\ [][NextCounting]_vars

\* one worker over an empty or a filled registry, until the context is
\* cancelled and after
SpecOne == Init /\ [][NextCancelled]_vars

\* one worker with two providers to select from
SpecTwoProviders == InitTwoProviders /\ [][NextCancelled]_vars

\* every step of Next, with two Submit calls fewer than the bound
NextShutdown ==
    \/ Start
    \/ \E n \in Notifications(calls + 1) \cup {Nil} :
         calls < MaxSubmit - 2 /\ Submit(n)
    \/ calls < MaxSubmit - 2 /\ SubmitClosed
    \/ StopSignal
    \/ StopClose
    \/ Cancel
    \/ Tick
    \/ \E u \in Users : KeyExpire(u)
    \/ DrainResult
    \/ DrainError
    \/ \E w \in workers : WorkerQuit(w)
    \/ \E w \in workers : WorkerCtxDone(w)
    \/ \E w \in workers : WorkerDequeue(w)
    \/ \E w \in workers : LimitCheck(w)
    \/ \E w \in workers : SendReturnsError(w)
    \/ \E w \in workers, success \in BOOLEAN : SendReturnsResponse(w, success)
    \/ \E w \in workers : BackoffElapsed(w)
    \/ \E w \in workers : BackoffCancelled(w)
    \/ \E w \in workers : Report(w)

\* two workers from Start to the end of Stop
SpecShutdown == InitTwo /\ [][NextShutdown]_vars

\* every step of Next but those of the readers of Results() and Errors()
NextUnread ==
    \/ Start
    \/ \E n \in Notifications(calls + 1) \cup {Nil} : Submit(n)
    \/ SubmitClosed
    \/ StopSignal
    \/ StopClose
    \/ Cancel
    \/ Tick
    \/ \E u \in Users : KeyExpire(u)
    \/ \E w \in workers : WorkerQuit(w)
    \/ \E w \in workers : WorkerCtxDone(w)
    \/ \E w \in workers : WorkerDequeue(w)
    \/ \E w \in workers : LimitCheck(w)
    \/ \E w \in workers : SendReturnsError(w)
    \/ \E w \in workers, success \in BOOLEAN : SendReturnsResponse(w, success)
    \/ \E w \in workers : BackoffElapsed(w)
    \/ \E w \in workers : BackoffCancelled(w)
    \/ \E w \in workers : Report(w)

\* one worker, nobody reading the result and error channels
SpecUnread == Init /\ [][NextUnread]_vars

\* the steps of a pool that is neither stopped nor cancelled, with nil
\* jobs and IDs of any length submitted
NextAnyJob ==
    \/ Start
    \/ \E n \in Notifications(calls + 1) \cup ShortIdNotifications(calls + 1)
                \cup {Nil} : Submit(n)
    \/ Tick
    \/ \E u \in Users : KeyExpire(u)
    \/ DrainResult
    \/ DrainError
    \/ \E w \in workers : WorkerDequeue(w)
    \/ \E w \in workers : LimitCheck(w)
    \/ \E w \in workers : SendReturnsError(w)
    \/ \E w \in workers, success \in BOOLEAN : SendReturnsResponse(w, success)
    \/ \E w \in workers : BackoffElapsed(w)
    \/ \E w \in workers : Report(w)

\* one worker, any job, while the pool runs
SpecAnyJob == Init /\ [][NextAnyJob]_vars

\* health checks on a pool that is started and stopped
NextHealth ==
    \/ Start
    \/ StopSignal
    \/ StopClose
    \/ \E w \in workers : WorkerQuit(w)
    \/ \E i \in 1..Len(providers), h \in BOOLEAN : SetHealthStatus(i, h)
    \/ IsHealthy

SpecHealth == InitHealth /\ [][NextHealth]_vars

\* concurrent IsAllowed calls, a reader of the TTL, and the clock
NextLimiter ==
    \/ \E c \in Callers, u \in Users : PipeIncr(c, u)
    \/ \E c \in Callers, replyLost \in BOOLEAN : PipeExpire(c, replyLost)
    \/ \E c \in Callers : PipeBreaks(c)
    \/ \E c \in Callers, u \in Users : GetTTL(c, u)
    \/ WindowTick

SpecLimiter == InitLimiter /\ [][NextLimiter]_vars

\* concurrent IsAllowed calls, Reset and the readers of the count
NextReset ==
    \/ \E c \in Callers, u \in Users : PipeIncr(c, u)
    \/ \E c \in Callers, replyLost \in BOOLEAN : PipeExpire(c, replyLost)
    \/ \E c \in Callers : PipeBreaks(c)
    \/ \E c \in Callers, u \in Users : Reset(c, u)
    \/ \E c \in Callers, u \in Users : GetCurrentCount(c, u)
    \/ \E c \in Callers, u \in Users : GetRemainingCount(c, u)

SpecReset == InitLimiter /\ [][NextReset]_vars

\* goroutines producing to and consuming from one topic while the
\* producer and the consumer are closed
NextKafka ==
    \/ \E p \in ProducerIds : ProduceCall(p)
    \/ \E p \in ProducerIds, marshals \in BOOLEAN : ProduceEnter(p, marshals)
    \/ \E p \in ProducerIds : ProduceSelect(p)
    \/ ProducerCloseCall
    \/ ProducerCloseRun
    \/ \E c \in ConsumerIds : ConsumeCall(c)
    \/ \E c \in ConsumerIds : ConsumeEnter(c)
    \/ \E c \in ConsumerIds : ConsumeSelect(c)
    \/ ConsumerCloseCall
    \/ ConsumerCloseRun

\* a fresh topic with its producer and its consumer
InitKafka ==
    /\ InitPool
    /\ workers = {"w1"}
    /\ InitRegistry({ProviderNames})

SpecKafka == InitKafka /\ [][NextKafka]_vars

\* goroutines creating producers and consumers on two topics while the
\* clients already created are used
NextRegistry ==
    \/ \E n \in Creators, kind \in {"producer", "consumer"}, t \in Topics :
         NewClientCall(n, kind, t)
    \/ \E n \in Creators : QueueLookup(n)
    \/ \E n \in Creators : QueueMake(n)
    \/ \E n \in Creators : NewClientReturn(n)
    \/ \E h \in handles : HandleProduce(h)
    \/ \E h \in handles : HandleConsume(h)

SpecRegistry == InitKafka /\ [][NextRegistry]_vars

\* a manager built, filled and asked for providers and health results
NextManager ==
    \/ \E st \in Strategies : NewProviderManager(st)
    \/ \E name \in MockNames : AddProvider(name)
    \/ \E i \in 1..Len(providers), h \in BOOLEAN : SetHealthStatus(i, h)
    \/ GetProvider
    \/ CallHealthCheckAll

\* the service before it registers its providers
InitManager ==
    /\ InitPool
    /\ workers = {"w1"}
    /\ InitRegistry({<<>>})

SpecManager == InitManager /\ [][NextManager]_vars

\* a mock provider configured and sent notifications
NextMock ==
    \/ \E name \in MockProviderNames, rate \in SuccessRates :
         NewMockProvider(name, rate)
    \/ \E id \in NotificationIDs, ctx \in {"live", "canceled", "deadline"} :
         MockSendCall(id, ctx)
    \/ \E err \in {"canceled", "deadline"} : MockCtxDone(err)
    \/ MockSendCtxDone
    \/ MockSendAfter

SpecMock == InitKafka /\ [][NextMock]_vars

\* the consumer started, fed errors by its group and stopped
NextConsumerStop ==
    \/ ConsumerStart
    \/ \E err \in BOOLEAN : ConsumeReturns(err)
    \/ LoopReport
    \/ LoopCheck
    \/ GroupError
    \/ MonitorReceive
    \/ MonitorReport
    \/ ReadErrorChan
    \/ ConsumerStop
    \/ ConsumerStopWait
    \/ ConsumerStopClose

\* every goroutine that can take a step takes one; Consume returns once
\* the context is done; the group need not emit an error, and the service
\* need not read errorChan
ConsumerStopFairness ==
    /\ WF_vars(ConsumeReturnsOnCancel)
    /\ WF_vars(LoopReport) /\ WF_vars(LoopCheck)
    /\ WF_vars(MonitorReceive) /\ WF_vars(MonitorReport)
    /\ WF_vars(ConsumerStopWait) /\ WF_vars(ConsumerStopClose)

SpecConsumerStop ==
    InitKafka /\ [][NextConsumerStop]_vars /\ ConsumerStopFairness

\* notifications published and processed by the consumer service
NextService ==
    \/ \E id \in NotifIds, rc \in 0..maxRetries + 1, at \in ScheduleAts :
         Publish(id, rc, at)
    \/ ServiceTick
    \/ \E delivered_ \in BOOLEAN, redisOk \in BOOLEAN :
         processMessage(delivered_, redisOk)

\* the workers keep calling processMessage
ServiceFairness ==
    /\ WF_vars(ServiceTick)
    /\ WF_vars(\E delivered_ \in BOOLEAN, redisOk \in BOOLEAN :
              processMessage(delivered_, redisOk))

SpecService == InitKafka /\ [][NextService]_vars /\ ServiceFairness

\* the Service from Start to the end of Stop: Submit is called by
\* processMessages only, s.cancel() is the first step of Service.Stop and
\* workerPool.Stop comes after the consumer's
NextMain ==
    \/ Start
    \/ ProcessMessagesStart
    \/ MessageArrives
    \/ ProcessMessagesReceive
    \/ ProcessMessagesCtxDone
    \/ \E n \in Notifications(calls + 1) : AtSubmit /\ Submit(n)
    \/ AtSubmit /\ SubmitClosed
    \/ ProcessMessagesLoop
    \/ mainSvc.pm # "new" /\ Cancel
    \/ ServiceStopConsumer
    \/ mainSvc.stop = "consumerStopped" /\ StopSignal
    \/ StopClose
    \/ ServiceStopReturns
    \/ DrainResult
    \/ DrainError
    \/ \E w \in workers : WorkerQuit(w)
    \/ \E w \in workers : WorkerCtxDone(w)
    \/ \E w \in workers : WorkerDequeue(w)
    \/ \E w \in workers : LimitCheck(w)
    \/ \E w \in workers : SendReturnsError(w)
    \/ \E w \in workers, success \in BOOLEAN : SendReturnsResponse(w, success)
    \/ \E w \in workers : BackoffElapsed(w)
    \/ \E w \in workers : BackoffCancelled(w)
    \/ \E w \in workers : Report(w)

SpecMain == Init /\ [][NextMain]_vars

\* one ConsumeClaim call, the claim, the session and the two readers
NextClaim ==
    \/ \E valid \in BOOLEAN : ClaimMessageArrives(valid)
    \/ ClaimMessagesClosed
    \/ SessionDone
    \/ ClaimReceive
    \/ ClaimReceiveNil
    \/ ClaimReturnsOnDone
    \/ ClaimReportsError
    \/ ClaimHandsOver
    \/ ClaimMarks
    \/ MessageChanRead
    \/ ErrorChanRead

\* the goroutine of ConsumeClaim is scheduled whenever it can take a step
SpecClaim == InitKafka /\ [][NextClaim]_vars /\ WF_vars(ClaimStep)

\* attempt loops of pools of every retry budget and delay
NextBackoff ==
    \/ \E ra \in 0..MaxRetryAttempts, rd \in 0..MaxRetryDelay : LoopEnter(ra, rd)
    \/ LoopWaitElapses
    \/ LoopWaitCancelled
    \/ LoopSendFails
    \/ LoopSendAnswers

SpecBackoff == InitKafka /\ [][NextBackoff]_vars

\* messages sent and decoded one after the other
NextRoundTrip ==
    \/ \E m \in Messages, accepted \in BOOLEAN : ProducerSend(m, accepted)
    \/ ConsumeClaim
    \/ NextMessage

SpecRoundTrip == InitKafka /\ [][NextRoundTrip]_vars

\* the goroutines calling Consume keep running (the Go scheduler is fair
\* to runnable goroutines and the timer of the select fires), and so does
\* a Close call whose Lock can return
KafkaFairness ==
    /\ \A c \in ConsumerIds :
         /\ WF_vars(ConsumeCall(c))
         /\ WF_vars(ConsumeEnter(c))
         /\ WF_vars(ConsumeSelect(c))
    /\ WF_vars(ConsumerCloseRun)

\* the same with a producer that stays open and values that marshal
NextKafkaLive ==
    \/ \E p \in ProducerIds : ProduceCall(p)
    \/ \E p \in ProducerIds : ProduceEnter(p, TRUE)
    \/ \E p \in ProducerIds : ProduceSelect(p)
    \/ \E c \in ConsumerIds : ConsumeCall(c)
    \/ \E c \in ConsumerIds : ConsumeEnter(c)
    \/ \E c \in ConsumerIds : ConsumeSelect(c)
    \/ ConsumerCloseCall
    \/ ConsumerCloseRun

SpecKafkaLive == InitKafka /\ [][NextKafkaLive]_vars /\ KafkaFairness

(***************************************************************************)
(* Vocabulary of the properties below.  A report is "emitted" by a         *)
(* non-blocking send: it is put on its channel, or dropped when the        *)
(* channel is full.                                                        *)
(***************************************************************************)
InFlight == {"limit", "send", "backoff", "report"}

\* this step takes a notification out of the job buffer
DequeuesJob == Len(jobQueue') < Len(jobQueue) /\ Head(jobQueue) # Nil

\* this step takes an expired notification out of the job buffer
DequeuesExpired ==
    DequeuesJob /\ Head(jobQueue).expires /\ deadlinePassed

\* this step ends worker w's processing of its notification
JobEnds(w) == pc[w] \in InFlight /\ pc'[w] \notin InFlight

\* this step is worker w's sendResult
Reports(w) == pc[w] = "report" /\ pc'[w] # "report"

\* the step emits r on the result channel / nothing on it
EmitsResult(r) ==
    \/ Len(resultQueue) < MaxQueueSize /\ resultQueue' = Append(resultQueue, r)
    \/ Len(resultQueue) = MaxQueueSize /\ resultQueue' = resultQueue

\* the step emits e on the error channel
EmitsError(e) ==
    \/ Len(errorQueue) < MaxQueueSize /\ errorQueue' = Append(errorQueue, e)
    \/ Len(errorQueue) = MaxQueueSize /\ errorQueue' = errorQueue

TerminalKinds == {"ratelimit", "sent", "rejected", "exhausted"}

(***************************************************************************)
(* C1.  Submit never blocks: a call on a buffer holding fewer than         *)
(* maxQueueSize notifications appends the notification and returns nil; a  *)
(* call on a full buffer returns the 'job queue is full' error and leaves  *)
(* the buffer as it was; the buffer never holds more than maxQueueSize     *)
(* jobs.  (A call is a step that raises calls while the channel is open.)  *)
(***************************************************************************)
C1_SubmitNonBlocking ==
    /\ [](Len(jobQueue) <= MaxQueueSize)
    /\ [](panicked = "no" /\ ~closed /\ calls < MaxSubmit
            => ENABLED (\E n \in Notifications(calls + 1) : Submit(n)))
    /\ [][calls' = calls + 1 /\ ~closed =>
            IF Len(jobQueue) < MaxQueueSize
            THEN /\ submitRet' = "nil"
                 /\ Len(jobQueue') = Len(jobQueue) + 1
                 /\ SubSeq(jobQueue', 1, Len(jobQueue)) = jobQueue
            ELSE /\ submitRet' = "QueueFull"
                 /\ jobQueue' = jobQueue]_vars

\* a Submit on the started pool was turned away by a full buffer
C1_Witness ==
    /\ submitRet = "QueueFull"
    /\ Len(jobQueue) = MaxQueueSize
    /\ started

(***************************************************************************)
(* C2 as claimed.  Every notification accepted into the job queue produces *)
(* exactly one ProcessingResult (emitted or dropped), on every path        *)
(* through processNotification and for jobs still buffered when the pool   *)
(* stops.                                                                  *)
(***************************************************************************)
C2_ExactlyOneResultAlways ==
    /\ [][/\ ~DequeuesExpired
          /\ \A w \in workers :
               JobEnds(w) => Reports(w) /\ g[w].res = 0]_vars
    /\ [](stopPc = "done" => \A i \in 1..Len(jobQueue) : jobQueue[i] = Nil)

(***************************************************************************)
(* C2 as amended.  Every notification a worker dequeues ends with at most  *)
(* one ProcessingResult, emitted by sendResult: exactly one when it ends   *)
(* rate-limited, sent, rejected or with its retries exhausted, and none    *)
(* when it is expired, when the limiter call fails, when no provider is    *)
(* registered or when cancellation interrupts a backoff wait.  A           *)
(* notification still buffered when Stop closes the channels stays there   *)
(* and produces nothing.                                                   *)
(***************************************************************************)
C2_OneResultOnResultPaths ==
    [][/\ DequeuesExpired => resultQueue' = resultQueue
       /\ closed => /\ jobQueue' = jobQueue
                    /\ Len(resultQueue') <= Len(resultQueue)
       /\ \A w \in workers :
            /\ Reports(w) =>
                 /\ JobEnds(w)
                 /\ g[w].res = 0
                 /\ pending[w].kind \in TerminalKinds
                 /\ EmitsResult(pending[w])
            /\ JobEnds(w) /\ ~Reports(w) =>
                 /\ pc[w] \in {"limit", "backoff"}
                 /\ g[w].res = 0
                 /\ resultQueue' = resultQueue]_vars

\* results of two kinds are on the channel and the error of a
\* notification that ended without a result is on the error channel
C2_Witness ==
    /\ \E i \in 1..Len(resultQueue) : resultQueue[i].kind = "sent"
    /\ \E i \in 1..Len(resultQueue) : resultQueue[i].kind = "ratelimit"
    /\ \E i \in 1..Len(errorQueue) : errorQueue[i].kind = "expired"

(***************************************************************************)
(* C3.  No notification is visible to two workers: the notifications the   *)
(* workers hold and the buffered ones are pairwise different, and a worker *)
(* gets a notification only by taking the head out of the buffer, alone.   *)
(***************************************************************************)
C3_NoJobSharedByWorkers ==
    /\ [](\A w1, w2 \in workers :
            w1 # w2 /\ cur[w1] # Nil => cur[w1].id # cur[w2].id)
    /\ [](\A w \in workers : \A i \in 1..Len(jobQueue) :
            cur[w] # Nil => cur[w].id # jobQueue[i].id)
    /\ [](\A i, k \in 1..Len(jobQueue) :
            i # k /\ jobQueue[i] # Nil => jobQueue[i].id # jobQueue[k].id)
    /\ [][\A w \in workers :
            cur'[w] # cur[w] /\ cur'[w] # Nil =>
              /\ jobQueue # <<>>
              /\ cur'[w] = Head(jobQueue)
              /\ jobQueue' = Tail(jobQueue)
              /\ \A v \in workers \ {w} : cur'[v] = cur[v]]_vars

\* two workers are in provider calls for two notifications at once
C3_Witness ==
    /\ pc["w1"] = "send" /\ pc["w2"] = "send"
    /\ cur["w1"] # Nil /\ cur["w2"] # Nil

(***************************************************************************)
(* C4 as claimed.  When every Send call for a notification returned a      *)
(* transport error, the worker has called Send exactly retryAttempts + 1   *)
(* times when it leaves the notification, and leaves it by emitting one    *)
(* failed result with Attempts = retryAttempts + 1, failed raised once.    *)
(***************************************************************************)
C4_AlwaysFullBudget ==
    [][\A w \in workers :
         JobEnds(w) /\ g[w].sends > 0 /\ g[w].resp = 0 =>
           /\ g[w].sends = RetryAttempts + 1
           /\ Reports(w)
           /\ pending[w].kind = "exhausted"
           /\ pending[w].attempts = RetryAttempts + 1
           /\ g[w].incF = 1]_vars

(***************************************************************************)
(* C4 as amended.  When every Send call for a notification returned a      *)
(* transport error, the worker either calls Send exactly                   *)
(* retryAttempts + 1 times and then emits one failed result with           *)
(* Attempts = retryAttempts + 1, raising failed exactly once, or, the      *)
(* context being cancelled during a backoff wait, leaves the notification  *)
(* after fewer calls with no result and no counter raised.                 *)
(***************************************************************************)
C4_FullBudgetUnlessCancelled ==
    [][\A w \in workers :
         /\ JobEnds(w) /\ g[w].sends > 0 /\ g[w].resp = 0 =>
              \/ /\ Reports(w)
                 /\ g[w].sends = RetryAttempts + 1
                 /\ pending[w].kind = "exhausted"
                 /\ ~pending[w].success
                 /\ pending[w].attempts = RetryAttempts + 1
                 /\ g[w].incF = 1 /\ g[w].incP = 0 /\ g[w].res = 0
                 /\ EmitsResult(pending[w])
              \/ /\ pc[w] = "backoff" /\ ctxDone
                 /\ g[w].sends <= RetryAttempts
                 /\ g[w].incF = 0 /\ g[w].incP = 0 /\ g[w].res = 0
                 /\ resultQueue' = resultQueue
         /\ pc[w] = "send" /\ pc'[w] = "report" /\ g'[w].resp = 0 =>
              /\ failed' = failed + 1
              /\ processed' = processed
              /\ g[w].sends = RetryAttempts + 1]_vars

\* the failed result of an exhausted budget is on the result channel
C4_Witness ==
    \E i \in 1..Len(resultQueue) :
      /\ resultQueue[i].kind = "exhausted"
      /\ resultQueue[i].attempts = RetryAttempts + 1
      /\ failed >= 1

(***************************************************************************)
(* C5.  A rejection is never retried: once a Send call has returned a      *)
(* response, no further Send call is made for that notification; a         *)
(* response with Success = false makes the worker emit a failed result     *)
(* whose Attempts is the number of that attempt (one, when the first call  *)
(* is rejected).                                                           *)
(***************************************************************************)
C5_RejectionNotRetried ==
    /\ [](\A w \in workers :
            g[w].resp > 0 =>
              /\ g[w].resp = 1
              /\ pc[w] = "report"
              /\ pending[w].attempts = g[w].sends
              /\ pending[w].kind \in {"sent", "rejected"}
              /\ pending[w].kind = "rejected" =>
                   ~pending[w].success /\ g[w].incF = 1 /\ g[w].incP = 0)
    /\ [][\A w \in workers :
            /\ g[w].resp > 0 =>
                 g'[w].sends = g[w].sends \/ (JobEnds(w) /\ Reports(w))
            /\ pc[w] = "send" /\ g'[w].resp > g[w].resp =>
                 /\ pc'[w] = "report"
                 /\ pending'[w].attempts = attempt[w]
            /\ Reports(w) /\ pending[w].kind = "rejected" =>
                 JobEnds(w) /\ EmitsResult(pending[w])]_vars

\* the first call of a notification with a retry budget was rejected
C5_Witness ==
    \E i \in 1..Len(resultQueue) :
      /\ resultQueue[i].kind = "rejected"
      /\ resultQueue[i].attempts = 1
      /\ RetryAttempts >= 1

(***************************************************************************)
(* C6.  A notification whose expiry has passed when a worker dequeues it   *)
(* never reaches the limiter or a provider: the worker emits exactly one   *)
(* error, no result, and is back at its select.                            *)
(***************************************************************************)
C6_ExpiredNeverSent ==
    [][DequeuesExpired =>
         /\ \A w \in workers : pc'[w] = pc[w] /\ cur'[w] = cur[w]
                               /\ g'[w] = g[w]
         /\ EmitsError([id |-> Head(jobQueue).id, kind |-> "expired"])
         /\ resultQueue' = resultQueue
         /\ counter' = counter
         /\ <<processed, failed, rateLimited>>' =
              <<processed, failed, rateLimited>>]_vars

\* the error of an expired notification is on the error channel
C6_Witness ==
    /\ \E i \in 1..Len(errorQueue) : errorQueue[i].kind = "expired"
    /\ resultQueue = <<>>
    /\ deadlinePassed

(***************************************************************************)
(* C7.  When the limiter disallows the user (the count after the INCR is   *)
(* above the limit and the call did not fail), the worker raises           *)
(* rateLimited by one, leaves processed and failed alone, builds a result  *)
(* with Success = false carrying the rate-limit error, emits it, and has   *)
(* selected and contacted no provider.                                     *)
(***************************************************************************)
C7_RateLimitedNoProvider ==
    /\ [](\A w \in workers :
            pending[w].kind = "ratelimit" =>
              /\ pc[w] = "report"
              /\ ~pending[w].success
              /\ pending[w].provider = "" /\ prov[w] = ""
              /\ g[w].sends = 0
              /\ g[w].incR = 1 /\ g[w].incP = 0 /\ g[w].incF = 0)
    /\ [][\A w \in workers :
            /\ pc[w] = "limit" /\ pc'[w] # "limit"
               /\ counter[cur[w].user] + 1 > Limit =>
                 \/ \* the limiter call failed
                    /\ pc'[w] = "idle"
                    /\ <<processed, failed, rateLimited>>' =
                         <<processed, failed, rateLimited>>
                 \/ /\ pc'[w] = "report"
                    /\ pending'[w].kind = "ratelimit"
                    /\ rateLimited' = rateLimited + 1
                    /\ processed' = processed /\ failed' = failed
            /\ Reports(w) /\ pending[w].kind = "ratelimit" =>
                 /\ JobEnds(w)
                 /\ EmitsResult(pending[w])
                 /\ <<processed, failed, rateLimited>>' =
                      <<processed, failed, rateLimited>>]_vars

\* a rate-limit result is on the result channel and only rateLimited rose
C7_Witness ==
    /\ \E i \in 1..Len(resultQueue) : resultQueue[i].kind = "ratelimit"
    /\ rateLimited = 1 /\ processed = 0 /\ failed = 0

(***************************************************************************)
(* C8.  A worker whose context is cancelled during a backoff wait or       *)
(* during a provider call leaves the notification without building or      *)
(* emitting a result and without raising processed or failed.              *)
(***************************************************************************)
C8_CancelledNoResult ==
    \A w \in workers :
      g[w].hit # "no" =>
        /\ pc[w] # "report"
        /\ g[w].incP = 0 /\ g[w].incF = 0

(***************************************************************************)
(* C9.  Once Stop has closed quit, no worker takes a further notification  *)
(* out of the job buffer.                                                  *)
(***************************************************************************)
C9_NoDequeueAfterQuit == [][quit => ~DequeuesJob]_vars

(***************************************************************************)
(* C10.  The channels are closed only after every worker has exited, and   *)
(* no worker ever sends on a closed channel.                               *)
(***************************************************************************)
C10_CloseAfterWorkersExit ==
    /\ closed => \A w \in workers : pc[w] = "exited"
    /\ panicked # "worker"

\* Stop has returned from a pool of two workers that reported a result
C10_Witness ==
    /\ closed /\ stopPc = "done"
    /\ workers = WorkerIds
    /\ \A w \in workers : pc[w] = "exited"
    /\ resultQueue # <<>>

(***************************************************************************)
(* C11.  Reporting never blocks a worker.  With nobody reading the result  *)
(* and error channels, a worker that has a result to report can always     *)
(* take its sendResult step; on a full result channel the step leaves the  *)
(* channel as it is and the worker is back at its select; likewise the     *)
(* steps that end in sendError leave a full error channel as it is and the *)
(* worker is back at its select.                                           *)
(***************************************************************************)
C11_ReportingNeverBlocks ==
    /\ [](\A w \in workers :
            panicked = "no" /\ pc[w] = "report" => ENABLED Report(w))
    /\ [](\A w \in workers :
            panicked = "no" /\ pc[w] = "limit" => ENABLED LimitCheck(w))
    /\ [](\A w \in workers :
            panicked = "no" /\ pc[w] = "idle" /\ jobQueue # <<>>
              => ENABLED WorkerDequeue(w))
    /\ [][\A w \in workers :
            /\ Reports(w) /\ Len(resultQueue) = MaxQueueSize =>
                 resultQueue' = resultQueue /\ pc'[w] = "idle"
            /\ (pc[w] = "limit" /\ pc'[w] = "idle"
                  /\ Len(errorQueue) = MaxQueueSize) =>
                 errorQueue' = errorQueue
            /\ DequeuesExpired /\ Len(errorQueue) = MaxQueueSize =>
                 errorQueue' = errorQueue /\ pc'[w] = pc[w]]_vars

\* nobody reads the results, the channel is full, one more notification
\* than the channel holds has been reported and the worker is back at its
\* select
C11_Witness ==
    /\ Len(resultQueue) = MaxQueueSize
    /\ processed + failed + rateLimited > MaxQueueSize
    /\ \A w \in workers : pc[w] = "idle"
    /\ ~quit /\ ~ctxDone

(***************************************************************************)
(* C12.  While the pool is started and neither stopped nor cancelled, no   *)
(* submitted job (a nil job and an ID shorter than 8 bytes included) makes *)
(* a worker leave its loop or kills the process.                           *)
(***************************************************************************)
C12_NothingFatalButShutdown ==
    started /\ ~quit /\ ~ctxDone =>
      /\ panicked = "no"
      /\ \A w \in workers : pc[w] # "exited"

\* this step is a call of IsHealthy (a call that returns what the last one
\* returned, on the same probe outcomes, leaves the state as it is)
IsHealthyReturns == <<healthRet, lastProbe>>' # <<healthRet, lastProbe>>

(***************************************************************************)
(* C13 as claimed.  IsHealthy returns an error if and only if quit is      *)
(* closed or no registered provider passed its health check in that call;  *)
(* it returns an error for an empty registry.                              *)
(***************************************************************************)
C13_UnhealthyIffNoProviderPasses ==
    [][IsHealthyReturns =>
         /\ healthRet' # "nil" <=>
               (quit \/ \A i \in 1..Len(lastProbe') : ~lastProbe'[i])
         /\ providers = <<>> => healthRet' # "nil"]_vars

(***************************************************************************)
(* C13 as amended.  IsHealthy returns an error if and only if quit is      *)
(* closed or no provider name has a passing health check in that call,     *)
(* where providers registered under one name count once, with the outcome  *)
(* of the one registered last.  Hence it returns an error for an empty     *)
(* registry and when no provider passes; and when the names are pairwise   *)
(* different it returns nil as soon as quit is open and one provider       *)
(* passes.                                                                 *)
(***************************************************************************)
C13_UnhealthyIffNoNamePasses ==
    [][IsHealthyReturns =>
         /\ healthRet' # "nil" <=>
               \/ quit
               \/ \A n \in {providers[i] : i \in 1..Len(providers)} :
                    ~lastProbe'[LastNamed(n)]
         /\ quit <=> healthRet' = "stopped"
         /\ providers = <<>> => healthRet' # "nil"
         /\ (\A i \in 1..Len(lastProbe') : ~lastProbe'[i]) =>
              healthRet' # "nil"
         /\ (/\ ~quit
             /\ \A i, k \in 1..Len(providers) :
                  i # k => providers[i] # providers[k]
             /\ \E i \in 1..Len(lastProbe') : lastProbe'[i]) =>
              healthRet' = "nil"]_vars

\* a running pool with two providers of different names, one passing and
\* one failing, was found healthy
C13_Witness ==
    /\ healthRet = "nil" /\ ~quit /\ started
    /\ Len(providers) = 2 /\ providers[1] # providers[2]
    /\ lastProbe[1] # lastProbe[2]

(***************************************************************************)
(* Vocabulary of the limiter's properties.                                 *)
(***************************************************************************)
\* this step is the INCR of an IsAllowed call of c
Increments(c) == lpc[c] = "idle" /\ lpc'[c] = "incr"

\* this step is the return of an IsAllowed call of c with a verdict
ReturnsVerdict(c) == lpc[c] = "incr" /\ lpc'[c] = "idle" /\ ~lret'.err

\* this step is the return of the query op on user u
QueryReturns(op, u) ==
    lret' # lret /\ lret'.op = op /\ lret'.user = u /\ ~lret'.err

(***************************************************************************)
(* C14.  Within one lifetime of a user's key (from its creation to its     *)
(* expiry or Reset), the IsAllowed calls that return a verdict return true *)
(* when they are among the first `limit` calls and false when they come    *)
(* after the limit-th: a call sees its own position as its count.          *)
(***************************************************************************)
C14_FirstLimitCallsAllowed ==
    /\ [](\A c \in Callers : lpc[c] = "incr" => lcount[c] = lpos[c])
    /\ [](\A u \in Users : counter[u] = made[u])
    /\ [][\A c \in Callers :
            ReturnsVerdict(c) =>
              /\ lpos[c] <= Limit => lret'.ok
              /\ lpos[c] > Limit => ~lret'.ok]_vars

\* the call after the limit-th of a key's lifetime was denied
C14_Witness ==
    /\ lret.op = "IsAllowed" /\ ~lret.err /\ ~lret.ok
    /\ lret.val = Limit + 1
    /\ made[lret.user] = Limit + 1

(***************************************************************************)
(* C15.  Every IsAllowed call that returns a verdict has raised the user's *)
(* counter by exactly one, leaves the key with an expiry of the full       *)
(* window, returns true exactly when the count after its own increment is  *)
(* at most the limit, and leaves the other users' keys alone.              *)
(***************************************************************************)
C15_IncrementsAndRefreshes ==
    [][\A c \in Callers :
         /\ Increments(c) =>
              /\ counter'[luser'[c]] = counter[luser'[c]] + 1
              /\ lcount'[c] = counter'[luser'[c]]
              /\ \A v \in Users \ {luser'[c]} :
                   counter'[v] = counter[v] /\ ttl'[v] = ttl[v]
         /\ ReturnsVerdict(c) =>
              /\ ttl'[luser[c]] = Window
              /\ counter' = counter
              /\ lret'.ok <=> lcount[c] <= Limit
              /\ \A v \in Users \ {luser[c]} : ttl'[v] = ttl[v]]_vars

(***************************************************************************)
(* C16.  The INCR and the EXPIRE of an IsAllowed call are one atomic step  *)
(* for the other clients: no GetTTL ever finds the key present without an  *)
(* expiry.                                                                 *)
(***************************************************************************)
C16_IncrExpireAtomic ==
    lret.op = "GetTTL" => lret.val # -1

(***************************************************************************)
(* C17.  A user's key is dropped by expiry only when a full window has     *)
(* passed since an IsAllowed call last touched it.                         *)
(***************************************************************************)
C17_ClearedOnlyAfterIdleWindow ==
    [][\A u \in Users :
         counter[u] > 0 /\ counter'[u] = 0 => idle'[u] = Window]_vars

(***************************************************************************)
(* C18.  Reset(u) deletes u's key and leaves the other keys alone; as long *)
(* as no other command has touched the key since, GetCurrentCount returns  *)
(* 0, GetRemainingCount returns the limit, and an IsAllowed call gets the  *)
(* count 1 and returns true.                                               *)
(***************************************************************************)
C18_ResetClearsCounter ==
    /\ [](\A u \in Users :
            fresh[u] => /\ counter[u] = 0 /\ ttl[u] = 0
                        /\ CurrentCount(u) = 0
                        /\ RemainingCount(u) = Limit)
    /\ [][\A u \in Users :
            /\ QueryReturns("Reset", u) =>
                 /\ fresh'[u]
                 /\ \A v \in Users \ {u} :
                      counter'[v] = counter[v] /\ ttl'[v] = ttl[v]
            /\ fresh[u] /\ QueryReturns("GetCurrentCount", u) =>
                 lret'.val = 0
            /\ fresh[u] /\ QueryReturns("GetRemainingCount", u) =>
                 lret'.val = Limit
            /\ \A c \in Callers :
                 /\ fresh[u] /\ Increments(c) /\ luser'[c] = u =>
                      lcount'[c] = 1 /\ Allowed(lcount'[c])
                 /\ ReturnsVerdict(c) =>
                      (lret'.ok <=> Allowed(lcount[c]))]_vars

\* u1 was driven past the limit (the call that saw the count is still in
\* flight), then reset, and GetRemainingCount returned the limit
C18_Witness ==
    /\ fresh["u1"]
    /\ \E c \in Callers :
         lpc[c] = "incr" /\ luser[c] = "u1" /\ lcount[c] > Limit
    /\ lret.op = "GetRemainingCount" /\ lret.user = "u1"
    /\ lret.val = Limit

(***************************************************************************)
(* Vocabulary of the topic's properties.                                   *)
(***************************************************************************)
\* this step is the return of p's Produce call from its select
ProduceLeavesSelect(p) == ppc[p] = "select" /\ ppc'[p] = "idle"

\* this step is the return of c's Consume call from its select
ConsumeLeavesSelect(c) == cpc[c] = "select" /\ cpc'[c] = "idle"

\* a blocked Produce ends by enqueueing its message when there is space,
\* by the timeout or by the closed error, the last two enqueueing nothing
ProduceEndsThreeWays ==
    [][\A p \in ProducerIds :
         ProduceLeavesSelect(p) =>
           \/ /\ pret'[p] = "ok" /\ Len(kq) < KafkaCap
              /\ kq' = Append(kq, pmsg[p])
           \/ pret'[p] \in {"timeout", "closed"} /\ kq' = kq]_vars

\* after Close has returned every Produce fails with the closed error and
\* enqueues nothing
ProduceFailsAfterClose ==
    /\ [](~prunning => \A p \in ProducerIds : ppc[p] # "select")
    /\ [][\A p \in ProducerIds :
            ~prunning /\ ppc[p] = "rlock" /\ ppc'[p] # "rlock" =>
              pret'[p] = "closed" /\ ppc'[p] = "idle" /\ kq' = kq]_vars

\* no Produce call returns "producer is closed" from its select
ClosedCaseNeverTaken ==
    [][\A p \in ProducerIds :
         ProduceLeavesSelect(p) => pret'[p] # "closed"]_vars

(***************************************************************************)
(* C19.  A Produce call blocked on a full buffer ends by enqueueing, by    *)
(* the timeout or by the closed error; when it ends on a buffer that is    *)
(* still full while a Close call on the producer is under way, it ends     *)
(* with "producer is closed"; after Close has returned every Produce fails *)
(* with the closed error and enqueues nothing.                             *)
(***************************************************************************)
C19_CloseEndsBlockedProduce ==
    /\ ProduceEndsThreeWays
    /\ ProduceFailsAfterClose
    /\ [][\A p \in ProducerIds :
            ProduceLeavesSelect(p) /\ Len(kq) = KafkaCap /\ pcl = "lock" =>
              pret'[p] = "closed"]_vars

(***************************************************************************)
(* C20.  A Consume call at its select returns the head of the buffer and   *)
(* removes it when a message is buffered, and returns "consume timeout"    *)
(* removing nothing when none is; it returns "consumer is closed" exactly  *)
(* when it finds running false; once Close has returned no Consume call is *)
(* in flight and no step removes a message from the buffer.                *)
(***************************************************************************)
C20_ConsumeOutcomes ==
    /\ [](~crunning => \A c \in ConsumerIds : cpc[c] # "select")
    /\ [][/\ \A c \in ConsumerIds :
              /\ ConsumeLeavesSelect(c) =>
                   IF kq # <<>>
                   THEN /\ cret'[c] = [res |-> "ok", msg |-> Head(kq)]
                        /\ kq' = Tail(kq)
                   ELSE /\ cret'[c] = [res |-> "timeout", msg |-> 0]
                        /\ kq' = kq
              /\ ~crunning /\ cpc[c] = "rlock" /\ cpc'[c] # "rlock" =>
                   /\ cret'[c] = [res |-> "closed", msg |-> 0]
                   /\ cpc'[c] = "idle" /\ kq' = kq
              /\ cret'[c].res = "closed" /\ cret[c].res # "closed" =>
                   ~crunning
          /\ ~crunning => Len(kq') >= Len(kq)]_vars

\* the consumer is closed with a message left in the buffer: one Consume
\* call got a message before, a later one was refused
C20_Witness ==
    /\ ~crunning /\ ccl = "done" /\ kq # <<>>
    /\ \E c, d \in ConsumerIds :
         cret[c].res = "closed" /\ cret[d].res = "ok"

\* the elements of a sequence
Range(q) == {q[i] : i \in 1..Len(q)}

\* every message enqueued so far, in the order of the enqueues: those
\* already received, then those still buffered
Log == delivered \o kq

(***************************************************************************)
(* C21.  The messages Produce reported as enqueued form a log that only    *)
(* grows at its end, by the message of a Produce call returning nil; each  *)
(* receive hands the oldest message not yet received to exactly one        *)
(* Consume call, so no message is lost, none is received twice and they    *)
(* are received in the order they entered the buffer; and a buffered       *)
(* message is eventually received unless the consumer is closed.           *)
(***************************************************************************)
C21_DeliveredOnceInOrder ==
    /\ [](\A i, j \in 1..Len(Log) : i # j => Log[i] # Log[j])
    /\ [][\/ Log' = Log
          \/ \E p \in ProducerIds :
               /\ ProduceLeavesSelect(p) /\ pret'[p] = "ok"
               /\ Log' = Append(Log, pmsg[p])
               /\ delivered' = delivered]_vars
    /\ [][\A p \in ProducerIds :
            ProduceLeavesSelect(p) /\ pret'[p] = "ok" =>
              pmsg[p] \in Range(Log') \ Range(Log)]_vars
    /\ [][delivered' # delivered =>
            \E c \in ConsumerIds :
              /\ ConsumeLeavesSelect(c)
              /\ cret'[c] = [res |-> "ok", msg |-> Head(kq)]
              /\ delivered' = Append(delivered, Head(kq))
              /\ \A d \in ConsumerIds \ {c} : cret'[d] = cret[d]]_vars
    /\ \A m \in 1..MaxProduce :
         (m \in Range(kq)) ~> (m \in Range(delivered) \/ ~crunning)

\* two messages were received by two different Consume callers, in the
\* order of their enqueues, which is not the order of the Produce calls
C21_Witness ==
    /\ Len(delivered) >= 2 /\ delivered[1] > delivered[2]
    /\ \E c, d \in ConsumerIds :
         /\ c # d
         /\ cret[c] = [res |-> "ok", msg |-> delivered[1]]
         /\ cret[d] = [res |-> "ok", msg |-> delivered[2]]

(***************************************************************************)
(* C22.  Whatever the interleaving of NewProducer and NewConsumer calls,   *)
(* two clients have the same channel exactly when they were created for    *)
(* the same topic; the entry of a topic, once made, is never replaced and  *)
(* every client of the topic holds it; a channel only buffers messages of  *)
(* the topic it belongs to, and a consumer only receives messages produced *)
(* on its own topic.                                                       *)
(***************************************************************************)
C22_OneBufferPerTopic ==
    /\ [](\A h, k \in handles : h.topic = k.topic <=> h.queue = k.queue)
    /\ [](\A h \in handles : messageQueues[h.topic] = h.queue)
    /\ [](\A s, t \in Topics :
            s # t /\ messageQueues[s] # 0 =>
              messageQueues[s] # messageQueues[t])
    /\ [](\A t \in Topics : \A i \in 1..MaxChans :
            t \in Range(chans[i]) => messageQueues[t] = i)
    /\ [](lastGot # <<>> => lastGot[1] = lastGot[2])
    /\ [][\A t \in Topics :
            messageQueues[t] # 0 =>
              messageQueues'[t] = messageQueues[t]]_vars

\* both topics have a producer and a consumer, made by calls that were
\* under way together; a message of t2 was consumed while one of t1 is
\* buffered
C22_Witness ==
    /\ \A t \in Topics : \A kind \in {"producer", "consumer"} :
         \E h \in handles : h.topic = t /\ h.kind = kind
    /\ nchan = Cardinality(Topics)
    /\ lastGot = <<"t2", "t2">>
    /\ "t1" \in Range(chans[messageQueues["t1"]])
    /\ \A n \in Creators : npc[n].pc = "lock" /\ npc[n].topic = "t1"

(***************************************************************************)
(* Equality of messages field for field: strings, numbers and the values   *)
(* of Data as Go's == on them, a map by its entries (nil and empty alike), *)
(* a time by its instant (Time.Equal), a pointer by what it points to.     *)
(***************************************************************************)
DataEqual(a, b) ==
    /\ a.has = b.has
    /\ a.has => a.kind = b.kind /\ a.n = b.n

TimeEqual(a, b) == a.at = b.at

FieldsEqual(a, b) ==
    /\ a.ID = b.ID /\ a.UserID = b.UserID /\ a.Type = b.Type
    /\ a.Title = b.Title /\ a.Body = b.Body
    /\ DataEqual(a.Data, b.Data)
    /\ a.Priority = b.Priority
    /\ TimeEqual(a.CreatedAt, b.CreatedAt)
    /\ a.ExpiresAt.isNil = b.ExpiresAt.isNil
    /\ TimeEqual(a.ExpiresAt, b.ExpiresAt)
    /\ a.Retry = b.Retry

\* a message has decoded
Decoded == rtBack # NoMessage

\* the messages whose strings are valid UTF-8 and whose Data only holds
\* values of the types Unmarshal produces
JSONNative(m) ==
    /\ {m.ID, m.UserID, m.Type, m.Title, m.Body} \cap InvalidUTF8 = {}
    /\ m.Data.has => m.Data.kind = GoTypeOf(JSONType(m.Data.kind))

\* those messages come back equal field for field
RoundTripOfJSONNative ==
    Decoded /\ JSONNative(rtMsg) => FieldsEqual(rtBack, rtMsg)

(***************************************************************************)
(* C23.  A NotificationMessage that went through Send and was decoded by   *)
(* ConsumeClaim is equal to the original field for field.                  *)
(***************************************************************************)
C23_RoundTrip ==
    Decoded => FieldsEqual(rtBack, rtMsg)

(***************************************************************************)
(* Vocabulary of the manager's properties.                                 *)
(***************************************************************************)
\* this step is a GetProvider call returning
GetProviderReturns == gpRet' # gpRet

\* this step is a HealthCheckAll call returning
HealthCheckAllReturns == hcaRet' # hcaRet

\* the names of the registered providers
Names == {providers[i] : i \in 1..Len(providers)}

(***************************************************************************)
(* C24.  GetProvider on an empty registry returns the error and no         *)
(* provider whatever the strategy; on a registry with a provider it        *)
(* returns, under RoundRobin and Random, one of the registered providers   *)
(* and no error.                                                           *)
(***************************************************************************)
C24_EmptyRegistryFails ==
    [][GetProviderReturns =>
         /\ Len(providers) = 0 => gpRet'.res = "error" /\ gpRet'.index = 0
         /\ Len(providers) > 0 /\ strategy \in {"RoundRobin", "Random"} =>
              gpRet'.res = "ok" /\ gpRet'.index \in 1..Len(providers)]_vars

\* a HealthBased manager without providers returned the error
C24_Witness ==
    /\ strategy = "HealthBased" /\ providers = <<>>
    /\ gpRet.res = "error" /\ gpRet.index = 0

(***************************************************************************)
(* C25.  Under HealthBased, with the providers registered in the order     *)
(* unhealthy (healthStatus false), healthy (healthStatus true), every      *)
(* GetProvider call returns the healthy one, the second.                   *)
(***************************************************************************)
C25_HealthyAlwaysChosen ==
    [][/\ GetProviderReturns /\ strategy = "HealthBased"
       /\ Len(providers) = 2 /\ ~healthy[1] /\ healthy[2]
       => gpRet'.res = "ok" /\ gpRet'.index = 2]_vars

(***************************************************************************)
(* C26.  Under HealthBased, on a registry with a provider, GetProvider     *)
(* returns no error; it returns a provider whose probe passed with no      *)
(* provider registered before it passing, and the first registered         *)
(* provider when no probe passed.                                          *)
(***************************************************************************)
C26_FirstPassingOrFirst ==
    [][GetProviderReturns /\ strategy = "HealthBased" /\ Len(providers) > 0 =>
         /\ gpRet'.res = "ok" /\ gpRet'.index \in 1..Len(providers)
         /\ (\E k \in 1..Len(providers) : gpRet'.probes[k]) =>
              /\ gpRet'.probes[gpRet'.index]
              /\ \A k \in 1..(gpRet'.index - 1) : ~gpRet'.probes[k]
         /\ (\A k \in 1..Len(providers) : ~gpRet'.probes[k]) =>
              gpRet'.index = 1]_vars

\* the second of two providers was returned, the probe of the first
\* having failed although its healthStatus is true
C26_Witness ==
    /\ strategy = "HealthBased" /\ Len(providers) = 2
    /\ healthy = <<TRUE, TRUE>>
    /\ gpRet = [res |-> "ok", index |-> 2, probes |-> <<FALSE, TRUE>>]

(***************************************************************************)
(* C28.  As claimed: the map HealthCheckAll returns has as many entries as *)
(* there are registered providers, whatever their names.                   *)
(***************************************************************************)
C28_OneResultPerProvider ==
    [][HealthCheckAllReturns =>
         Cardinality(DOMAIN hcaRet'.results) = Len(providers)]_vars

(***************************************************************************)
(* C28, amended.  The map HealthCheckAll returns has one entry for each    *)
(* name among the registered providers, holding the outcome of the         *)
(* provider registered last under the name; it has as many entries as      *)
(* there are providers exactly when their names are pairwise different.    *)
(***************************************************************************)
C28_OneResultPerName ==
    [][HealthCheckAllReturns =>
         /\ DOMAIN hcaRet'.results = Names
         /\ \A n \in Names :
              hcaRet'.results[n] = hcaRet'.probes[LastNamed(n)]
         /\ Cardinality(DOMAIN hcaRet'.results) = Len(providers)
              <=> Cardinality(Names) = Len(providers)]_vars

\* two providers of one name, the first passing and the second failing:
\* one entry, which is the failure
C28_Witness ==
    /\ Len(providers) = 2 /\ providers[1] = providers[2]
    /\ hcaRet.probes = <<TRUE, FALSE>>
    /\ hcaRet.called /\ Cardinality(DOMAIN hcaRet.results) = 1
    /\ ~hcaRet.results[providers[1]]

(***************************************************************************)
(* Vocabulary of the properties of MockProvider.Send.                      *)
(***************************************************************************)
\* this step is a Send call on the mock provider ending
MockSendEnds == mpCall.pc = "select" /\ mpCall'.pc = "idle"

\* what a Send call that returned a response owes its caller
ResponseAsClaimed(ret, rate) ==
    /\ ret.Success => ret.MessageID # <<>>
    /\ ~ret.Success => \E k \in 1..Len(failures) : ret.Error = failures[k]
    /\ rate = 100 => ret.Success
    /\ rate = 0 => ~ret.Success

(***************************************************************************)
(* C27.  Every Send call on a mock provider returns: the error of its      *)
(* context, and then the context was cancelled or timed out while Send     *)
(* waited, or else a response and no error; a successful response has a    *)
(* non-empty message id and a failed one has one of the five reasons; at   *)
(* success rate 1.0 every response is a success and at 0.0 every response  *)
(* is a failure.                                                           *)
(***************************************************************************)
C27_SendOutcomes ==
    [][MockSendEnds =>
         /\ mpRet'.out \in {"error", "response"}
         /\ mpRet'.out = "error" => mpCall.ctx # "live"
         /\ mpCall.ctx = "live" => mpRet'.out = "response"
         /\ mpRet'.out = "response" =>
              ResponseAsClaimed(mpRet', mp.successRate)]_vars

\* the same for the notifications whose ID has the eight bytes that the
\* message id takes from it, which is what the code guarantees
SendOutcomesOfLongIDs ==
    [][MockSendEnds /\ SliceInRange(mpCall.id, IdPrefix) =>
         /\ mpRet'.out \in {"error", "response"}
         /\ mpRet'.out = "error" => mpCall.ctx # "live"
         /\ mpCall.ctx = "live" => mpRet'.out = "response"
         /\ mpRet'.out = "response" =>
              ResponseAsClaimed(mpRet', mp.successRate)]_vars

\* a Send call of a notification with a short ID ended in the run-time
\* panic of the slice expression
SendPanicked == mpRet.out = "panic"

(***************************************************************************)
(* C29.  Every Stop call on the consumer returns: once it has cancelled    *)
(* the context both goroutines of Start exit, wg.Wait returns and the      *)
(* consumer group is closed, whether or not the group emits an error.      *)
(***************************************************************************)
C29_StopTerminates == (scPc.stop = "wait") ~> (scPc.stop = "returned")

\* the consume loop by itself does exit once Stop has cancelled the context
ConsumeLoopExits == (scPc.stop = "wait") ~> WgDone(scPc.loop)

\* Stop returns only with both goroutines gone, and the error monitor goes
\* only through an error it received: while Stop waits, the Errors()
\* channel is open
MonitorLeavesOnlyOnError ==
    [][scPc.monitor = "range" => scPc'.monitor # "done"]_vars

\* Stop waits for the error monitor, which waits for an error
StopStuck ==
    /\ scPc.stop = "wait" /\ scPc.loop = "done" /\ scPc.monitor = "range"
    /\ scErrors.len = 0 /\ ~scErrors.closed
    /\ scErrors.emitted = MaxGroupErrors

(***************************************************************************)
(* Vocabulary of the properties of the consumer service.                   *)
(***************************************************************************)
\* this step is a processMessage call whose delivery failed, on message m
FailsOn(m) ==
    /\ svcTopic # <<>> /\ m = Head(svcTopic) /\ svcTopic' = Tail(svcTopic)
    /\ svcLast'.delivery = "failed"

\* what processMessage does at a failed delivery: CanRetry is RetryCount <
\* max, a retry adds one to RetryCount, and the notification is marked
\* failed only with its retries used up
RetryBookkeeping ==
    [][\A m \in {svcTopic[k] : k \in 1..Len(svcTopic)} :
         FailsOn(m) =>
           /\ CanRetry(m, maxRetries) <=> m.RetryCount < maxRetries
           /\ CanRetry(m, maxRetries) =>
                /\ svcLast'.RetryCount = m.RetryCount + 1
                /\ svcLast'.Status = "retry"
           /\ svcLast'.Status = "failed" <=> m.RetryCount >= maxRetries]_vars

(***************************************************************************)
(* C30.  A notification whose delivery failed with retries left is         *)
(* processed again, until it is sent or marked failed: the status "retry"  *)
(* of a notification leads to "sent" or "failed"; and the bookkeeping of   *)
(* the retries is as above.                                                *)
(***************************************************************************)
C30_RetriedUntilDone ==
    /\ RetryBookkeeping
    /\ \A id \in NotifIds :
         (svcStatus[id] = "retry") ~> (svcStatus[id] \in {"sent", "failed"})

\* a notification failed once, has the status "retry", and is on no topic
RetryNeverRequeued ==
    /\ svcTopic = <<>>
    /\ svcLast.delivery = "failed" /\ svcLast.RetryCount = 1
    /\ svcStatus[svcLast.ID] = "retry"

(***************************************************************************)
(* Vocabulary of the scheduled notifications.                              *)
(***************************************************************************)
\* this step is a processMessage call on message m that finds it scheduled
SkipsScheduled(m) ==
    /\ svcTopic # <<>> /\ m = Head(svcTopic) /\ svcTopic' = Tail(svcTopic)
    /\ svcLast'.delivery = "skipped"

\* processMessage skips exactly the notifications whose ScheduleAt is set
\* and after now, and delivers none of them
SkipsExactlyTheScheduled ==
    [][\A m \in {svcTopic[k] : k \in 1..Len(svcTopic)} :
         m = Head(svcTopic) /\ svcTopic' = Tail(svcTopic) =>
           (svcLast'.delivery = "skipped"
              <=> (~m.ScheduleAt.isNil /\ m.ScheduleAt.at > svcNow))]_vars

(***************************************************************************)
(* C31.  A notification that processMessage finds scheduled for the future *)
(* is not discarded: it is skipped exactly when its ScheduleAt is set and  *)
(* after now, and a delivery of it is attempted later.                     *)
(***************************************************************************)
C31_ScheduledSentLater ==
    /\ SkipsExactlyTheScheduled
    /\ \A id \in NotifIds :
         (svcLast.ID = id /\ svcLast.delivery = "skipped")
           ~> (svcLast.ID = id /\ svcLast.delivery \in {"ok", "failed"})

\* a scheduled notification was skipped, its time has arrived, and it is
\* on no topic
ScheduledDiscarded ==
    /\ svcLast.delivery = "skipped" /\ svcTopic = <<>>
    /\ svcNow = MaxTime /\ svcStatus[svcLast.ID] = ""

(***************************************************************************)
(* Vocabulary of the reports of a notification.                            *)
(***************************************************************************)
\* this step is worker w's sendError on the limiter's error or on the
\* registry's error
ReportsError(w) == pc[w] = "limit" /\ pc'[w] = "idle"

\* the ids of the reports waiting on a channel
IdsOn(q) == {q[i].id : i \in 1..Len(q)}

(***************************************************************************)
(* C32.  A notification a worker dequeued gets at most one                 *)
(* ProcessingResult and at most one error, and never both.  Every step     *)
(* that reports ends the processing of the notification and is its first   *)
(* report: sendResult leaves the error channel alone and sendError leaves  *)
(* the result channel alone; the steps that do not end the processing      *)
(* leave both alone; an abandoned notification reports nothing.  No id is  *)
(* twice on a channel, and none is on both.                                *)
(***************************************************************************)
C32_OneReportAtMost ==
    /\ [][/\ DequeuesExpired =>
               /\ EmitsError([id |-> Head(jobQueue).id, kind |-> "expired"])
               /\ resultQueue' = resultQueue
               /\ \A w \in workers : pc'[w] \notin InFlight \/ pc'[w] = pc[w]
          /\ \A w \in workers :
               /\ Reports(w) =>
                    /\ JobEnds(w) /\ g[w].res = 0
                    /\ EmitsResult(pending[w])
                    /\ errorQueue' = errorQueue
               /\ ReportsError(w) =>
                    /\ JobEnds(w) /\ g[w].res = 0 /\ pending[w] = NoResult
                    /\ \E kind \in {"limiter", "noprovider"} :
                         EmitsError([id |-> cur[w].id, kind |-> kind])
                    /\ resultQueue' = resultQueue
               /\ JobEnds(w) /\ ~Reports(w) /\ ~ReportsError(w) =>
                    /\ pc[w] = "backoff"
                    /\ resultQueue' = resultQueue /\ errorQueue' = errorQueue
          /\ (Len(resultQueue') > Len(resultQueue)
                \/ Len(errorQueue') > Len(errorQueue)) =>
               DequeuesExpired \/ \E w \in workers : JobEnds(w)]_vars
    /\ [](/\ Cardinality(IdsOn(resultQueue)) = Len(resultQueue)
          /\ Cardinality(IdsOn(errorQueue)) = Len(errorQueue)
          /\ IdsOn(resultQueue) \cap IdsOn(errorQueue) = {})

\* one notification left a result and another an error, one of each kind
\* of path: a result after a response, an error of the limiter
C32_Witness ==
    /\ \E i \in 1..Len(resultQueue) : resultQueue[i].kind = "rejected"
    /\ \E i \in 1..Len(errorQueue) : errorQueue[i].kind = "limiter"
    /\ Len(resultQueue) + Len(errorQueue) = 2

C34_NoProviderOrLimiterError ==
    /\ [][\A w \in workers :
            ReportsError(w) =>
              /\ \/ /\ providers = <<>>
                    /\ EmitsError([id |-> cur[w].id, kind |-> "noprovider"])
                 \/ EmitsError([id |-> cur[w].id, kind |-> "limiter"])
              /\ resultQueue' = resultQueue
              /\ metricVars' = metricVars
              /\ g[w] = NoObs /\ g'[w] = NoObs
              /\ cur'[w] = Nil /\ pending'[w] = NoResult]_vars
    /\ [](\A w \in workers :
            providers = <<>> =>
              /\ pc[w] \notin {"send", "backoff"}
              /\ g[w].sends = 0
              /\ pending[w].kind \in {"none", "ratelimit"})

\* both errors lie on the error sink, nothing was counted and nothing
\* reported
C34_Witness ==
    /\ providers = <<>>
    /\ Len(errorQueue) = 2
    /\ {errorQueue[1].kind, errorQueue[2].kind} = {"noprovider", "limiter"}
    /\ resultQueue = <<>>
    /\ processed = 0 /\ failed = 0 /\ rateLimited = 0

\* this step is worker w's IsAllowed call (with what follows it up to the
\* first Send or the report)
ChecksLimit(w) == pc[w] = "limit" /\ pc'[w] # "limit"

\* the step takes one unit of the quota of w's user and restarts the window
ConsumesQuota(w) ==
    /\ counter' = [counter EXCEPT ![cur[w].user] = @ + 1]
    /\ ttl' = [ttl EXCEPT ![cur[w].user] = Window]

\* an expired notification is reported without a call of the limiter
ExpiredBypassesLimiter ==
    DequeuesExpired =>
      /\ counter' = counter /\ ttl' = ttl
      /\ \A w \in workers : pc'[w] # "limit"

Counted == {w \in workers : pc[w] = "report"}
CountedSuccess == {w \in Counted : pending[w].success}

LoopKinds == {"sent", "rejected", "exhausted"}

(***************************************************************************)
(* C37.  The provider is selected once per notification, before the first  *)
(* attempt: it is one of the registry, it stays the same from the first    *)
(* Send to the report, every Send of the notification is issued to it, and *)
(* the Provider field of the result of the attempt loop names it.          *)
(***************************************************************************)
C37_OneProviderPerNotification ==
    /\ [](\A w \in workers :
            /\ g[w].sends > 0 => prov[w] \in Selectable /\ g[w].to = {prov[w]}
            /\ g[w].sends = 0 => prov[w] = "" /\ g[w].to = {}
            /\ pending[w].kind \in LoopKinds => pending[w].provider = prov[w])
    /\ [][\A w \in workers :
            /\ g[w].sends > 0 /\ ~JobEnds(w) => prov'[w] = prov[w]
            /\ Reports(w) /\ pending[w].kind \in LoopKinds =>
                 /\ g[w].to = {pending[w].provider}
                 /\ EmitsResult(pending[w])]_vars

\* after two Sends to the second provider of a registry of two, the result
\* of the exhausted budget names that provider
C37_Witness ==
    \E w \in workers :
      /\ pc[w] = "report" /\ pending[w].kind = "exhausted"
      /\ Len(providers) = 2 /\ prov[w] = providers[2]
      /\ g[w].sends = 2 /\ g[w].to = {providers[2]}
      /\ pending[w].provider = providers[2]

(***************************************************************************)
(* C38.  Pool.Submit is never executed on a job channel Pool.Stop has      *)
(* closed: the step of workerPool.Stop that closes the job channel finds   *)
(* processMessages with no message in its hands and either returned or     *)
(* with nothing left to receive, no Submit call is made on the closed      *)
(* channel, and none panics with a send on a closed channel.               *)
(***************************************************************************)
C38_NoSubmitOnClosedChannel ==
    /\ [][closed' /\ ~closed =>
            /\ mainSvc.pm # "submit"
            /\ mainSvc.pm = "exited" \/ mainSvc.inbox = 0]_vars
    /\ [][calls' = calls + 1 => ~closed]_vars
    /\ [](panicked # "submit")

\* the close of the job channel while processMessages holds a message it
\* has received and not yet submitted
SubmitPendingAtClose == closed /\ AtSubmit /\ panicked = "no"

\* notification id lies in the job buffer / is being processed by a worker
Queued(id) ==
    \E i \in 1..Len(jobQueue) : jobQueue[i] # Nil /\ jobQueue[i].id = id
Held(id) == \E w \in workers : pc[w] \in InFlight /\ cur[w].id = id

\* every end of a notification in the running pool is a sendResult or a
\* sendError call
EndsAreReports ==
    [][/\ DequeuesExpired =>
            EmitsError([id |-> Head(jobQueue).id, kind |-> "expired"])
       /\ \A w \in workers : JobEnds(w) => Reports(w) \/ ReportsError(w)]_vars

(***************************************************************************)
(* C39.  While the pool runs (no Stop, no cancellation) under fair         *)
(* scheduling, with limiter and provider calls that return, every          *)
(* notification Submit accepted is eventually taken by a worker and        *)
(* brought to its end, and every such end is a result or an error,         *)
(* emitted or dropped.                                                     *)
(***************************************************************************)
C39_AcceptedIsProcessed ==
    /\ EndsAreReports
    /\ \A id \in 1..MaxSubmit :
         (started /\ Queued(id)) ~> (~Queued(id) /\ ~Held(id))

\* the same, for as long as a worker goroutine is left
ProcessedWhileAWorkerLives ==
    \A id \in 1..MaxSubmit :
      (started /\ Queued(id)) ~>
        ((~Queued(id) /\ ~Held(id)) \/ (\A w \in workers : pc[w] = "exited"))

\* a notification waits in the buffer of a running pool whose only worker
\* has returned on a nil job
AcceptedAndOrphaned ==
    /\ started /\ ~quit /\ ~ctxDone /\ panicked = "no"
    /\ \A w \in workers : pc[w] = "exited"
    /\ \E id \in 1..MaxSubmit : Queued(id)

=============================================================================
